---- MODULE Spec2Model ----
(***************************************************************************)
(* Vessim software-in-the-loop coordination: the API server's request      *)
(* handlers over the Redis store (vessim/sil/api_server.py), the SiL       *)
(* interface model with its collector thread and per-step publish threads  *)
(* (vessim/cosim/sil_interface.py), the handlers of the earlier            *)
(* VirtualEnergySystemModel (simulator/virtual_energy_system.py) and the   *)
(* routes and collectors of examples/sil_example.py.                       *)
(*                                                                         *)
(* Floats are represented by integers (a float survives redis' repr and    *)
(* json.loads unchanged, so only identity of values matters here).         *)
(*                                                                         *)
(* The handlers of one server are `async def` bodies without any await,    *)
(* run by one uvicorn event loop in one process: each handler runs to its  *)
(* end before another starts, so each is one action.                       *)
(***************************************************************************)
EXTENDS Integers, Sequences, FiniteSets, TLC

----------------------------------------------------------------------------
\* Bounds of the model.
MaxRequests == 2    \* requests the external clients issue
MaxTick == 1        \* largest reading of the server's wall clock
TicksPerSec == 2    \* clock readings per second (the fraction has TicksPerSec values)
MaxSteps == 2       \* simulation steps
MaxTime == 3        \* largest time of a query to a meter or trace
MaxRows == 2        \* rows of a data file

\* Python's None (a missing redis key, an Optional field sent as null).
None == 0 - 1
\* A float field left out of a request body, and a str field left out.
Absent == 0 - 2
AbsentStr == "(absent)"

\* Values an external controller sends for min_soc (in percent) and grid_charge:
\* the fields are floats, any float is taken, also one outside [0, 1] (150 percent).
ParamVals == {30, 150}
\* The float the example's clients send (they also send null, or nothing).
ExampleVals == {30}
\* Values of the step inputs p_gen, ci and of battery.soc().
InputVals == {1, 2}
\* Path parameters of PUT .../nodes/{item_id}: ids of nodes, and one unknown name.
ItemIds == {"1", "2", "gcp"}
\* power_mode strings a client may send.
SentModes == {"normal", "high performance", "ultra"}
\* The SiL model's nodes (Node.id).
NodeIds == {1, 2}
\* The example's compute nodes (ComputeNode.name).
NodeNames == {"gcp", "raspi"}

Ticks == 0..MaxTick

\* The battery of the examples: SimpleBattery(capacity=100); charge levels it
\* starts with, in the same energy unit.
Capacity == 100
\* The factors of the carbon intensity units, in units of 1e-8: 1 and 0.45359237.
g_per_kWh_factor == 100000000
lb_per_MWh_factor == 45359237
InitialCharge == {0, 60}
\* controller_example.py: the names of the two power meters, and the inputs of
\* the carbon-aware controller: the battery's charge when the run begins (its
\* soc in percent, since the capacity is 100), the times of its steps in seconds
\* (11:00 is 39600) and the carbon intensities, all around the thresholds of
\* cacu_scenario. MicrogridDeltas are the power deltas of the microgrid's steps.
PowerMeters == {"mpm0", "mpm1"}
ControllerCharge == {0, 59, 60, 80, 81, 90}
CacuTimes == {39599, 39600, 43200, 86399, 86400, 126000}
CacuCi == {150, 200, 201, 249, 250}
MicrogridDeltas == {0 - 20, 0, 20}

----------------------------------------------------------------------------
\* Helpers: strings as sequences of code points, redis hashes as functions.

\* datetime.isoformat(): seconds, and ".ffffff" only when the fraction is not 0.
\* One symbol stands for the date and seconds, one for the six fraction digits;
\* 48 is "0", 46 is ".".
isoformat(t) ==
    LET sec == t \div TicksPerSec
        frac == t % TicksPerSec
    IN  IF frac = 0 THEN <<48 + sec>> ELSE <<48 + sec, 46, 48 + frac>>

\* Python's str comparison a < b: the first differing code point decides, a proper
\* prefix is smaller.
StrLess(a, b) ==
    \E i \in 1..Len(b) :
        /\ \A j \in 1..(i - 1) : j <= Len(a) /\ a[j] = b[j]
        /\ \/ i > Len(a)
           \/ i <= Len(a) /\ a[i] < b[i]

\* max(d.keys()) over str keys.
StrMax(S) == CHOOSE s \in S : \A x \in S : x = s \/ StrLess(x, s)

EmptyHash == <<>>

\* redis HSET hash field value: sets the field, replacing the value of an
\* existing field.
hset(h, f, v) == [x \in (DOMAIN h) \cup {f} |-> IF x = f THEN v ELSE h[x]]

\* The power modes the put_nodes handlers accept.
power_modes == {"power-saving", "normal", "high performance"}

----------------------------------------------------------------------------
VARIABLES
    scenario,       \* which part of the repository runs (fixed by Init)
    \* --- API server process: the Redis store
    battery_min_soc_log,     \* hash: isoformat timestamp -> entry
    battery_grid_charge_log, \* hash: isoformat timestamp -> entry
    power_mode_log,          \* hash: isoformat timestamp -> entry
    store,          \* string keys solar, ci, battery_soc (None: key not set)
    \* --- simulation process: _SilInterfaceModel and the objects it holds
    phase,          \* "boot": server started, initial publish pending; "run"
    p_gen, ci, soc, \* self.p_gen, self.ci, battery.soc()
    min_soc,        \* battery.min_soc / storage.min_soc
    grid_power,     \* policy.grid_power / battery_grid_charge
    node_mode,      \* power_mode of each node object
    updated_nodes,  \* self.updated_nodes
    collector,      \* the collector thread: [pc, collection]
    threads,        \* publish threads started by step and not yet finished
    nsteps,         \* steps executed
    \* --- VirtualEnergySystemModel
    nodes_power_mode,  \* self.nodes_power_mode: item_id -> power mode
    ves_redis,         \* its redis keys battery.min_soc, battery_grid_charge, nodes hash
    \* --- sil_example: the Broker's event log
    events,
    pydantic_v1,    \* the installed pydantic treats Optional[X] fields as not required
    \* --- the last response a client received
    resp,
    \* --- history, for stating the properties
    nputs,          \* requests the external clients issued
    accepted,       \* the accepted PUT /api/battery writes, in arrival order
    returned,       \* per accepted write: how often collect-set returned its events
    since_drain,    \* accepted writes since the last collect-set
    last_published, \* the body of the PUT /sim/update the server handled last
    last_delivered, \* the publish of the latest step has been answered
    \* --- the storage and the microgrid step that uses it
    charge_level,   \* battery.charge_level
    micro,          \* the microgrid step in progress (pc "idle": none)
    \* --- the run as a whole
    failures,       \* outbound requests that failed (history)
    teardown,       \* "running", or how far finalize has come
    \* --- power meters and traces
    mock,           \* the MockPowerMeter: [alive, _p]
    outcome,        \* the last call on a meter or trace: what it raised or returned
    last_set,       \* the power of the last accepted construction or set_power (history)
    fpm,            \* the FilePowerMeter: [alive, data, unit]
    file_arg,       \* the rows of the file its constructor was last called with (history)
    trace,          \* the TraceSimulator (a CarbonApi or a Generator)
    agent,          \* the CarbonAgent
    unit_arg,       \* the unit the last constructor call was given (history)
    zone_arg,       \* the zone the last lookup was given (history)
    first_query,    \* the first lookup since the data last changed, and its outcome (history)
    \* --- the construction of the SiL model
    boot,           \* how far _SilInterfaceModel.__init__ has come, and what it raised
    \* --- simulator/power_meter.py
    node_meter,     \* the NodeApiMeter, its update thread and the call of __del__
    \* --- controller_example.py
    power_meters    \* the MockPowerMeters of the controller, by name: [alive, _p]

vars == << scenario, battery_min_soc_log, battery_grid_charge_log, power_mode_log,
           store, phase, p_gen, ci, soc, min_soc, grid_power, node_mode,
           updated_nodes, collector, threads, nsteps, nodes_power_mode, ves_redis,
           events, pydantic_v1, resp, nputs, accepted, returned, since_drain,
           last_published, last_delivered, charge_level, micro, failures, teardown,
           mock, outcome, last_set, fpm, file_arg, trace, agent, unit_arg, zone_arg,
           first_query, boot, node_meter, power_meters >>

server_vars == << battery_min_soc_log, battery_grid_charge_log, power_mode_log, store >>
sim_vars == << phase, p_gen, ci, soc, nsteps, threads >>
param_vars == << min_soc, grid_power, node_mode, updated_nodes >>
ves_vars == << nodes_power_mode, ves_redis >>
example_vars == << events >>
history_put == << nputs, accepted, returned, since_drain >>
history_pub == << last_published, last_delivered >>
storage_vars == << charge_level, micro >>
run_vars == << failures, teardown >>
carbon_vars == << trace, agent, unit_arg, zone_arg >>
meter_vars == << mock, outcome, last_set, fpm, file_arg, carbon_vars, first_query, boot,
               node_meter, power_meters >>
\* The state of the SiL interface, the energy system and the examples.
system_vars == << server_vars, sim_vars, param_vars, collector, ves_vars, example_vars,
                 pydantic_v1, resp, history_put, history_pub, storage_vars, run_vars >>

\* The outcome of a call: the exception raised ("none": it returned) and the
\* value returned.
Outcome(op, arg, raised, value) == [op |-> op, arg |-> arg, raised |-> raised, value |-> value]
NoOutcome == Outcome("none", 0, "none", None)
\* No MockPowerMeter constructed yet.
NoMock == [alive |-> FALSE, _p |-> 0]
\* No table given (forecast=None), no zone given (zone=None).
NoTable == [zones |-> {}, index |-> {}, scale |-> 0]
NoZone == "(none)"
\* No TraceSimulator constructed yet; no CarbonAgent constructed yet.
NoTrace == [alive |-> FALSE, kind |-> "none", actual |-> NoTable, forecast |-> NoTable]
NoAgent == [alive |-> FALSE, carbon_conversion_factor |-> 0, ci |-> 0, intensity_input |-> 0]
\* _SilInterfaceModel.__init__ not yet called: no server process, startup not
\* complete, no request sent, no collector thread.
NotConstructed == [pc |-> "new", raised |-> "none", server_started |-> FALSE,
                   startup_complete |-> FALSE, requests |-> 0, collector_started |-> FALSE]
\* main() of controller_example.py: MockPowerMeter(name="mpm0", p=2.194) and
\* MockPowerMeter(name="mpm1", p=7.6). Powers are in milliwatts.
main_power_meters ==
    [name \in PowerMeters |->
        [alive |-> TRUE, _p |-> IF name = "mpm0" THEN 2194 ELSE 7600]]
\* No NodeApiMeter constructed yet. update_thread is where the thread is:
\* "request" (in http_client.get), "sleep" (in time.sleep) or "dead"; del is
\* where a call of __del__ is: "none", "joining" or "returned".
NoNodeMeter == [alive |-> FALSE, power |-> 0, update_thread |-> "none", del |-> "none"]
\* No lookup made since the data last changed.
NoQuery == [asked |-> FALSE, arg |-> 0, zone |-> NoZone, raised |-> "none", value |-> None]
\* The first lookup stays the one remembered.
remember(first, arg, zone, r) ==
    IF first.asked THEN first
    ELSE [asked |-> TRUE, arg |-> arg, zone |-> zone, raised |-> r.raised, value |-> r.value]
\* No FilePowerMeter constructed yet.
NoFileMeter == [alive |-> FALSE, data |-> <<>>, unit |-> "W"]

\* A response: the route, the status code, what the request carried and the
\* response body (NoBody: an error's detail, or null).
Response(op, status, request, body) ==
    [op |-> op, status |-> status, request |-> request, body |-> body]
NoBody == [null |-> TRUE]
NoResponse == Response("none", 0, NoBody, NoBody)
NoSnapshot == [solar |-> None, ci |-> None, battery_soc |-> None]
\* The collector thread: where it is, the collection it holds, and of the
\* collection it applied last: the keys that had entries and the exception raised.
NoCollection == [battery_min_soc |-> EmptyHash, battery_grid_charge |-> EmptyHash,
                 nodes_power_mode |-> EmptyHash]
IdleCollector == [pc |-> "idle", collection |-> NoCollection, found |-> {},
                  error |-> "none"]

\* No microgrid step in progress. Of the step run last the record keeps what it
\* read and produced: the parameters when it began (begin_min_soc, begin_grid),
\* the power delta, the power requested of the storage and the min_soc the
\* storage update used, the excess returned, and the grid power it produced.
\* While a controller is stepping, the record also holds what the controller
\* read (time, ci, battery_soc) and the new state it computed.
NoState == [battery_min_soc |-> 0, grid_power |-> 0, nodes_power_mode |-> "none"]
NoStep == [pc |-> "idle", p_delta |-> 0, begin_min_soc |-> 0, begin_grid |-> 0,
           request |-> 0, used_min_soc |-> 0, before |-> 0, excess |-> 0,
           grid_power |-> 0, time |-> 0, ci |-> 0, battery_soc |-> 0,
           new_state |-> NoState]

NoEvents == [battery_min_soc |-> <<>>, battery_grid_charge |-> <<>>,
             nodes_power_mode |-> <<>>]

Scenarios == {"collect", "publish", "ves", "example", "controller", "mock", "file", "carbon", "agent", "startup", "node"}

Init ==
    /\ scenario \in Scenarios
    /\ battery_min_soc_log = EmptyHash
    /\ battery_grid_charge_log = EmptyHash
    /\ power_mode_log = EmptyHash
    /\ phase = "boot"
    /\ p_gen = 0
    /\ ci = 0
    /\ soc \in IF scenario = "publish" THEN InputVals ELSE {1}
    /\ store = IF scenario = "ves"
               THEN [solar |-> 0, ci |-> 0, battery_soc |-> soc]
               ELSE NoSnapshot
    /\ min_soc = 0
    /\ grid_power = 0
    /\ node_mode = [n \in IF scenario = "example" THEN NodeNames
                            ELSE IF scenario = "controller" THEN PowerMeters
                            ELSE NodeIds |-> "normal"]
    /\ updated_nodes = <<>>
    /\ collector = IdleCollector
    /\ threads = {}
    /\ nsteps = 0
    /\ nodes_power_mode = EmptyHash
    /\ ves_redis = [min_soc |-> None, grid_charge |-> None, nodes |-> EmptyHash]
    /\ events = NoEvents
    /\ pydantic_v1 \in IF scenario = "example" THEN BOOLEAN ELSE {FALSE}
    /\ resp = NoResponse
    /\ nputs = 0
    /\ accepted = <<>>
    /\ returned = <<>>
    /\ since_drain = 0
    /\ last_published = NoSnapshot
    /\ last_delivered = FALSE
    /\ charge_level \in IF scenario = "ves" THEN InitialCharge
                       ELSE IF scenario = "controller" THEN ControllerCharge
                       ELSE {0}
    /\ micro = NoStep
    /\ failures = 0
    /\ teardown = "running"
    /\ mock = NoMock
    /\ outcome = NoOutcome
    /\ last_set = None
    /\ fpm = NoFileMeter
    /\ file_arg = <<>>
    /\ trace = NoTrace
    /\ agent = NoAgent
    /\ unit_arg = "none"
    /\ zone_arg = NoZone
    /\ first_query = NoQuery
    /\ boot = NotConstructed
    /\ node_meter = NoNodeMeter
    /\ power_meters = IF scenario = "controller" THEN main_power_meters ELSE <<>>

----------------------------------------------------------------------------
\* _SilInterfaceModel.__init__: after the server's startup the model publishes its
\* initial values and waits for the answer; only then the collector thread starts.

\* A faulty handler, for comparison: the battery_soc key is not written.
partial_update(update) == [store EXCEPT !.solar = update.solar, !.ci = update.ci]

\* PUT /sim/update: the three string keys are set from the one request body.
put_update(update) ==
    [solar |-> update.solar, ci |-> update.ci, battery_soc |-> update.battery_soc]

Snapshot == [solar |-> p_gen, ci |-> ci, battery_soc |-> soc]

InitialPublish ==
    /\ scenario \in {"collect", "publish"}
    /\ phase = "boot"
    /\ store' = put_update(Snapshot)
    /\ last_published' = Snapshot
    /\ phase' = "run"
    /\ UNCHANGED << scenario, meter_vars, storage_vars, run_vars,
                    battery_min_soc_log, battery_grid_charge_log,
                    power_mode_log, p_gen, ci, soc, nsteps, threads, param_vars, collector,
                    ves_vars, example_vars, pydantic_v1, resp, history_put,
                    last_delivered >>

----------------------------------------------------------------------------
\* The external controller's PUT requests to the API server.

\* What put_battery writes: one entry per log, under the one timestamp string.
\* An entry carries, beside the stored value, the clock reading and the number of
\* the write it came from (history).
put_battery_min_soc_log(t, battery, id) ==
    hset(battery_min_soc_log, isoformat(t), [val |-> battery.min_soc, t |-> t, id |-> id])

put_battery_grid_charge_log(t, battery, id) ==
    hset(battery_grid_charge_log, isoformat(t),
         [val |-> battery.grid_charge, t |-> t, id |-> id])

NoneReturned == [battery_min_soc |-> 0, battery_grid_charge |-> 0, nodes_power_mode |-> 0]

\* BatteryModel declares both fields as required floats: FastAPI answers 422
\* before the handler runs when one is missing.
put_battery ==
    /\ scenario = "collect"
    /\ teardown # "terminated"
    /\ nputs < MaxRequests
    /\ nputs' = nputs + 1
    /\ \E m \in ParamVals \cup {Absent}, g \in ParamVals \cup {Absent}, t \in Ticks :
        LET battery == [min_soc |-> m, grid_charge |-> g]
            id == Len(accepted) + 1
        IN  IF m = Absent \/ g = Absent
            THEN /\ resp' = Response("put_battery", 422, battery, NoBody)
                 /\ UNCHANGED << battery_min_soc_log, battery_grid_charge_log,
                                 accepted, returned, since_drain >>
            ELSE /\ battery_min_soc_log' = put_battery_min_soc_log(t, battery, id)
                 /\ battery_grid_charge_log' = put_battery_grid_charge_log(t, battery, id)
                 /\ resp' = Response("put_battery", 200, battery, battery)
                 /\ accepted' = Append(accepted,
                        [kind |-> "battery", t |-> t, min_soc |-> m, grid_charge |-> g])
                 /\ returned' = Append(returned, NoneReturned)
                 /\ since_drain' = since_drain + 1
    /\ UNCHANGED << scenario, meter_vars, storage_vars, run_vars,
                    power_mode_log, store, sim_vars, param_vars, collector,
                    ves_vars, example_vars, pydantic_v1, history_pub >>

\* The check of put_nodes: is the power mode one of the allowed ones?
valid_power_mode(power_mode) == power_mode \in power_modes

put_nodes ==
    /\ scenario = "collect"
    /\ teardown # "terminated"
    /\ nputs < MaxRequests
    /\ nputs' = nputs + 1
    /\ \E power_mode \in SentModes \cup {AbsentStr}, item_id \in ItemIds, t \in Ticks :
        LET node == [power_mode |-> power_mode]
            request == [item_id |-> item_id, power_mode |-> power_mode]
            id == Len(accepted) + 1
        IN  IF power_mode = AbsentStr
            THEN /\ resp' = Response("put_nodes", 422, request, NoBody)
                 /\ UNCHANGED << power_mode_log, accepted, returned, since_drain >>
            ELSE IF ~ valid_power_mode(power_mode)
            THEN /\ resp' = Response("put_nodes", 400, request, NoBody)
                 /\ UNCHANGED << power_mode_log, accepted, returned, since_drain >>
            ELSE /\ power_mode_log' = hset(power_mode_log, isoformat(t),
                        [item |-> item_id, mode |-> power_mode, t |-> t, id |-> id])
                 /\ resp' = Response("put_nodes", 200, request, node)
                 /\ accepted' = Append(accepted,
                        [kind |-> "nodes", t |-> t, item |-> item_id, mode |-> power_mode])
                 /\ returned' = Append(returned, NoneReturned)
                 /\ since_drain' = since_drain + 1
    /\ UNCHANGED << scenario, meter_vars, storage_vars, run_vars,
                    battery_min_soc_log, battery_grid_charge_log, store,
                    sim_vars, param_vars, collector, ves_vars, example_vars,
                    pydantic_v1, history_pub >>

----------------------------------------------------------------------------
\* The collector thread: GET /sim/collect-set, then the latest entry per key.

\* _deserialize_redis_hash of the three logs: what get_collect_set returns.
CollectSetModel ==
    [battery_min_soc |-> battery_min_soc_log,
     battery_grid_charge |-> battery_grid_charge_log,
     nodes_power_mode |-> power_mode_log]

\* _delete_all_keys_in_hash: HKEYS, then HDEL of each key.
delete_all_keys_in_hash(h) == [x \in (DOMAIN h) \ (DOMAIN h) |-> h[x]]

\* returned, with the count of the writes whose entries are in hash h raised for key.
CountReturned(ret, h, key) ==
    [i \in DOMAIN ret |->
        IF \E f \in DOMAIN h : h[f].id = i
        THEN [ret[i] EXCEPT ![key] = @ + 1]
        ELSE ret[i]]

\* The handler of GET /sim/collect-set, called by the collector thread, which the
\* model starts after its initial publish.
get_collect_set ==
    /\ scenario = "collect"
    /\ phase = "run"
    /\ teardown = "running"
    /\ collector.pc = "idle"
    /\ collector' = [collector EXCEPT !.pc = "apply", !.collection = CollectSetModel]
    /\ battery_min_soc_log' = delete_all_keys_in_hash(battery_min_soc_log)
    /\ battery_grid_charge_log' = delete_all_keys_in_hash(battery_grid_charge_log)
    /\ power_mode_log' = delete_all_keys_in_hash(power_mode_log)
    /\ returned' = CountReturned(
                     CountReturned(
                       CountReturned(returned, CollectSetModel.battery_min_soc,
                                     "battery_min_soc"),
                       CollectSetModel.battery_grid_charge, "battery_grid_charge"),
                     CollectSetModel.nodes_power_mode, "nodes_power_mode")
    /\ since_drain' = 0
    /\ UNCHANGED << scenario, meter_vars, storage_vars, run_vars,
                    store, sim_vars, param_vars, ves_vars, example_vars,
                    pydantic_v1, resp, nputs, accepted, history_pub >>

\* A faulty pick, for comparison: min() where the code has max().
oldest_key(log) == CHOOSE s \in DOMAIN log : \A x \in DOMAIN log : x = s \/ StrLess(s, x)

\* The entry _api_collector picks from a non-empty log of the collection.
newest_key(log) == StrMax(DOMAIN log)

\* int(k) of an item id: only digit strings convert.
IsIntLiteral(item) == item \in {"1", "2"}
IntOf(item) == IF item = "1" THEN 1 ELSE 2

\* The first node of self.nodes, in list order.
FirstNode == CHOOSE n \in NodeIds : \A m \in NodeIds : n <= m

\* The nodes_power_mode branch with a non-empty log. The latest entry is
\* {item_id: power_mode}. int(k) raises ValueError for a name; for the first node,
\* nodes_power_mode[node.id] raises KeyError when the entry is about another node,
\* and `node.id in nodes_power_mode[node.id]` (an int in a str) raises TypeError
\* otherwise. No node's power_mode is assigned and updated_nodes gets no element.
nodes_branch(entry) ==
    IF ~ IsIntLiteral(entry.item) THEN "ValueError"
    ELSE IF IntOf(entry.item) # FirstNode THEN "KeyError"
    ELSE "TypeError"

\* The keys of collection c whose log has entries.
NonEmptyKeys(c) == {k \in DOMAIN c : DOMAIN c[k] # {}}

\* A faulty collector, for comparison: an empty log resets battery.min_soc.
resetting_min_soc(c) ==
    IF DOMAIN c.battery_min_soc # {}
    THEN c.battery_min_soc[StrMax(DOMAIN c.battery_min_soc)].val
    ELSE 0

\* A faulty collector, for comparison: the grid-charge entries are not applied.
ignored_grid_power(c) == grid_power

\* battery.min_soc after _api_collector saw collection c.
collected_min_soc(c) ==
    IF DOMAIN c.battery_min_soc # {}
    THEN c.battery_min_soc[newest_key(c.battery_min_soc)].val
    ELSE min_soc

\* policy.grid_power after _api_collector saw collection c.
collected_grid_power(c) ==
    IF DOMAIN c.battery_grid_charge # {}
    THEN c.battery_grid_charge[newest_key(c.battery_grid_charge)].val
    ELSE grid_power

\* The rest of _api_collector, once the collection has arrived. An exception of
\* the nodes branch leaves the thread's target function; the thread then ends or,
\* if its loop catches the exception, goes on with the next interval.
api_collector ==
    /\ scenario = "collect"
    /\ collector.pc = "apply"
    /\ LET c == collector.collection
       IN  /\ min_soc' = collected_min_soc(c)
           /\ grid_power' = collected_grid_power(c)
           /\ IF DOMAIN c.nodes_power_mode # {}
              THEN \E after \in {"dead", "idle"} :
                     collector' = [pc |-> after, collection |-> NoCollection,
                                   found |-> NonEmptyKeys(c),
                                   error |-> nodes_branch(
                                       c.nodes_power_mode[newest_key(c.nodes_power_mode)])]
              ELSE collector' = [pc |-> "idle", collection |-> NoCollection,
                                 found |-> NonEmptyKeys(c), error |-> "none"]
    /\ UNCHANGED << scenario, meter_vars, storage_vars, run_vars,
                    server_vars, sim_vars, node_mode, updated_nodes, ves_vars,
                    example_vars, pydantic_v1, resp, history_put, history_pub >>

----------------------------------------------------------------------------
\* _SilInterfaceModel.step and the publish thread it starts.

NewThread(k) == [step |-> k, pc |-> "solar", solar |-> None, ci |-> None,
                 battery_soc |-> None]

\* A faulty step, for comparison: it joins the publish threads in flight.
joining_step(ths) == ths

\* The threads step waits for before it returns: after
\* api_server_update_thread.start() there is no join, so none.
awaited_by_step(ths) == ths \ ths

\* step: the inputs are stored, a thread is started for the publish and is not
\* joined; the loop over updated_nodes clears the list. The battery's own
\* simulator has stepped before, so battery.soc() may have a new value.
step ==
    /\ scenario = "publish"
    /\ phase = "run"
    /\ teardown = "running"
    /\ nsteps < MaxSteps
    /\ awaited_by_step(threads) = {}
    /\ nsteps' = nsteps + 1
    /\ \E g \in InputVals, c \in InputVals, b \in InputVals :
        /\ p_gen' = g
        /\ ci' = c
        /\ soc' = b
    /\ threads' = threads \cup {NewThread(nsteps + 1)}
    /\ updated_nodes' = <<>>
    /\ last_delivered' = FALSE
    /\ UNCHANGED << scenario, meter_vars, storage_vars, run_vars,
                    server_vars, phase, min_soc, grid_power, node_mode,
                    collector, ves_vars, example_vars, pydantic_v1, resp, history_put,
                    last_published >>

\* update_api_server builds the request body when the thread runs, field by field,
\* from what the model's attributes hold at that moment.
thread_read ==
    /\ \E th \in threads :
        /\ th.pc \in {"solar", "ci", "battery_soc"}
        /\ threads' = (threads \ {th}) \cup
              { CASE th.pc = "solar" -> [th EXCEPT !.solar = p_gen, !.pc = "ci"]
                  [] th.pc = "ci" -> [th EXCEPT !.ci = ci, !.pc = "battery_soc"]
                  [] OTHER -> [th EXCEPT !.battery_soc = soc, !.pc = "sent"] }
    /\ UNCHANGED << scenario, meter_vars, storage_vars, run_vars,
                    server_vars, phase, p_gen, ci, soc, nsteps, param_vars,
                    collector, ves_vars, example_vars, pydantic_v1, resp, history_put,
                    history_pub >>

\* The server handles the thread's PUT /sim/update and the thread ends.
thread_put_update ==
    /\ teardown # "terminated"
    /\ \E th \in threads :
        /\ th.pc = "sent"
        /\ store' = put_update(th)
        /\ last_published' = [solar |-> th.solar, ci |-> th.ci,
                              battery_soc |-> th.battery_soc]
        /\ last_delivered' = (last_delivered \/ th.step = nsteps)
        /\ threads' = threads \ {th}
    /\ UNCHANGED << scenario, meter_vars, storage_vars, run_vars,
                    battery_min_soc_log, battery_grid_charge_log,
                    power_mode_log, phase, p_gen, ci, soc, nsteps, param_vars,
                    collector, ves_vars, example_vars, pydantic_v1, resp, history_put >>

\* A faulty handling, for comparison: the exception reaches the step loop.
error_aborts_run(ph) == "aborted"

\* The run's phase after a request of a thread has failed: `except
\* HTTPClientError` is inside the thread's function, the phase stays.
phase_after_error(ph) == ph

\* The request fails or times out: HTTPClientError is caught and printed in the
\* thread, which ends.
thread_error ==
    /\ \E th \in threads :
        /\ th.pc = "sent"
        /\ threads' = threads \ {th}
    /\ phase' = phase_after_error(phase)
    /\ failures' = failures + 1
    /\ UNCHANGED << scenario, meter_vars, storage_vars, teardown,
                    server_vars, p_gen, ci, soc, nsteps, param_vars,
                    collector, ves_vars, example_vars, pydantic_v1, resp, history_put,
                    history_pub >>

\* What GET /api/solar, /api/ci and /api/battery-soc answer: the float of the
\* key, null when the key is not set.
get_solar == store.solar
get_ci == store.ci
get_battery_soc == store.battery_soc

get_routes ==
    /\ scenario = "publish"
    /\ teardown # "terminated"
    /\ nputs < MaxRequests
    /\ nputs' = nputs + 1
    /\ \/ resp' = Response("get_solar", 200, NoBody, get_solar)
       \/ resp' = Response("get_ci", 200, NoBody, get_ci)
       \/ resp' = Response("get_battery_soc", 200, NoBody, get_battery_soc)
    /\ UNCHANGED << scenario, meter_vars, storage_vars, run_vars,
                    server_vars, sim_vars, param_vars, collector, ves_vars,
                    example_vars, pydantic_v1, accepted, returned, since_drain,
                    history_pub >>

----------------------------------------------------------------------------
\* SilInterfaceSim.finalize, called when the simulation has finished.

\* A faulty finalize, for comparison: it does not wait for the collector thread.
not_joined(c) == TRUE

\* collector_thread.join() has returned: the thread, told to stop, is in no call
\* of _api_collector. StoppableThread is not among the source files; stop() is
\* taken to let the current call end and to start no further one.
joined(c) == c.pc # "apply"

\* collector_thread.stop() and collector_thread.join(): the collector ends its
\* current call, if it is in one, and drains no further. The API server keeps
\* running and handles requests. Where the model steps, finalize is called when
\* the run's steps have been executed; a read the server answers between the two
\* halves of finalize finds what it finds just before them, so the reads are
\* taken to come first.
finalize_stop_collector ==
    /\ scenario \in {"collect", "publish"}
    /\ phase = "run"
    /\ scenario = "publish" => (nsteps = MaxSteps /\ nputs = MaxRequests)
    /\ teardown = "running"
    /\ joined(collector)
    /\ teardown' = "collector_stopped"
    /\ UNCHANGED << scenario, meter_vars, storage_vars, failures, server_vars, sim_vars, param_vars,
                    collector, ves_vars, example_vars, pydantic_v1, resp, history_put,
                    history_pub >>

\* api_server.terminate() and api_server.join(): the server process ends. The
\* publish threads step has started are not joined: those in flight stay.
finalize_terminate ==
    /\ teardown = "collector_stopped"
    /\ teardown' = "terminated"
    /\ UNCHANGED << scenario, meter_vars, storage_vars, failures, server_vars, sim_vars, param_vars,
                    collector, ves_vars, example_vars, pydantic_v1, resp, history_put,
                    history_pub >>

----------------------------------------------------------------------------
\* VirtualEnergySystemModel: its handlers act on the model's attributes directly.

\* validate_keys: the expected keys the request body lacks (absent: the mark of
\* a key that was not sent).
missing_keys(data, expected_keys, absent) == {k \in expected_keys : data[k] = absent}

\* Storage.update(power, duration) of a battery with the given charge level and
\* min_soc (in percent): the charge level after the update and the excess. The
\* level after the requested energy is clamped to [min_soc * capacity, capacity];
\* the excess is the requested energy minus the change of the level.
update(level, msoc, power, duration) ==
    LET delta_energy == power * duration
        new_charge_level == level + delta_energy
        abs_min_soc == (msoc * Capacity) \div 100
        clamped == IF new_charge_level < abs_min_soc THEN abs_min_soc
                   ELSE IF new_charge_level > Capacity THEN Capacity
                   ELSE new_charge_level
    IN  [charge_level |-> clamped, excess |-> delta_energy - (clamped - level)]

\* Values of self.consumption and self.solar at a step.
VesPowers == {0, 50}

\* step, its first statement: power_deficit = self.consumption - self.solar.
\* The handlers run in the API server's thread, so a PUT can be handled between
\* this statement and the call of the battery.
ves_step_begin ==
    /\ scenario = "ves"
    /\ micro.pc = "idle"
    /\ nsteps < MaxSteps
    /\ \E consumption \in VesPowers, solar \in VesPowers :
         micro' = [NoStep EXCEPT !.pc = "battery",
                                 !.p_delta = consumption - solar,
                                 !.begin_min_soc = min_soc,
                                 !.begin_grid = grid_power]
    /\ UNCHANGED << scenario, meter_vars, charge_level, run_vars, server_vars, sim_vars, param_vars,
                    collector, ves_vars, example_vars, pydantic_v1, resp, history_put,
                    history_pub >>

\* A faulty step, for comparison: the grid power depends on how many requests
\* the handlers have served by the time the step runs.
racing_grid_power(power_deficit, returned_power) == nputs

\* A faulty step, for comparison: what the battery could not take of the excess
\* solar power is counted as power drawn from the grid.
feed_in_as_draw(power_deficit, returned_power) ==
    IF power_deficit > 0
    THEN LET battery_power == returned_power
             remaining_deficit == power_deficit + battery_power
         IN  IF remaining_deficit > 0 THEN remaining_deficit ELSE 0
    ELSE LET battery_excess == returned_power
         IN  IF battery_excess > 0 THEN battery_excess ELSE 0

\* What step assigns to self.grid_power, given the power deficit and what
\* battery.step returned for the power requested of it.
ves_grid_power(power_deficit, returned_power) ==
    IF power_deficit > 0
    THEN LET battery_power == returned_power
             remaining_deficit == power_deficit + battery_power
         IN  IF remaining_deficit > 0 THEN remaining_deficit ELSE 0
    ELSE LET battery_excess == returned_power
         IN  IF battery_excess > 0 THEN 0 - battery_excess ELSE 0

\* step, the rest: the battery is asked for -power_deficit and self.grid_power
\* is set from what it returns. battery_grid_charge is not read.
ves_step_battery ==
    /\ scenario = "ves"
    /\ micro.pc = "battery"
    /\ LET power_deficit == micro.p_delta
           r == update(charge_level, min_soc, 0 - power_deficit, 1)
       IN  /\ charge_level' = r.charge_level
           /\ micro' = [micro EXCEPT !.pc = "idle",
                                     !.request = 0 - power_deficit,
                                     !.used_min_soc = min_soc,
                                     !.before = charge_level,
                                     !.excess = r.excess,
                                     !.grid_power = ves_grid_power(power_deficit, r.excess)]
    /\ nsteps' = nsteps + 1
    /\ UNCHANGED << scenario, meter_vars, run_vars, server_vars, phase, p_gen, ci, soc, threads,
                    param_vars, collector, ves_vars, example_vars, pydantic_v1, resp,
                    history_put, history_pub >>

\* Floats a client sends to PUT /ves/battery: Dict[str, float] takes any float,
\* also one outside [0, 1].
VesParamVals == ParamVals \cup {150}

\* PUT /ves/battery.
ves_put_battery ==
    /\ scenario = "ves"
    /\ nputs < MaxRequests
    /\ nputs' = nputs + 1
    /\ \E m \in VesParamVals \cup {Absent}, g \in ParamVals \cup {Absent} :
        LET data == [min_soc |-> m, grid_charge |-> g]
        IN  IF missing_keys(data, {"min_soc", "grid_charge"}, Absent) # {}
            THEN /\ resp' = Response("put_battery", 422, data, NoBody)
                 /\ UNCHANGED << min_soc, grid_power, ves_redis >>
            ELSE /\ min_soc' = data.min_soc
                 /\ grid_power' = data.grid_charge
                 /\ ves_redis' = [ves_redis EXCEPT !.min_soc = data.min_soc,
                                                   !.grid_charge = data.grid_charge]
                 /\ resp' = Response("put_battery", 200, data, data)
    /\ UNCHANGED << scenario, meter_vars, storage_vars, run_vars,
                    server_vars, sim_vars, node_mode, updated_nodes, collector,
                    nodes_power_mode, example_vars, pydantic_v1, accepted, returned,
                    since_drain, history_pub >>

\* PUT /cs/nodes/{item_id}, item_id: int. FastAPI converts the path parameter and
\* answers 422 itself when it is no integer.
ves_put_nodes ==
    /\ scenario = "ves"
    /\ nputs < MaxRequests
    /\ nputs' = nputs + 1
    /\ \E power_mode \in SentModes \cup {AbsentStr}, item_id \in ItemIds :
        LET data == [power_mode |-> power_mode]
            request == [item_id |-> item_id, power_mode |-> power_mode]
        IN  IF ~ IsIntLiteral(item_id) \/ missing_keys(data, {"power_mode"}, AbsentStr) # {}
            THEN /\ resp' = Response("put_nodes", 422, request, NoBody)
                 /\ UNCHANGED << nodes_power_mode, ves_redis >>
            ELSE IF ~ valid_power_mode(power_mode)
            THEN /\ resp' = Response("put_nodes", 400, request, NoBody)
                 /\ UNCHANGED << nodes_power_mode, ves_redis >>
            ELSE /\ nodes_power_mode' = hset(nodes_power_mode, IntOf(item_id), power_mode)
                 /\ ves_redis' = [ves_redis EXCEPT
                                    !.nodes = hset(@, item_id, power_mode)]
                 /\ resp' = Response("put_nodes", 200, request, data)
    /\ UNCHANGED << scenario, meter_vars, storage_vars, run_vars,
                    server_vars, sim_vars, param_vars, collector,
                    example_vars, pydantic_v1, accepted, returned, since_drain,
                    history_pub >>

\* redis_get(entry, float): the float of the key; the keys are set by the
\* constructor's MSET and by nothing else.
redis_get(entry) == store[entry]

ves_get_routes ==
    /\ scenario = "ves"
    /\ nputs < MaxRequests
    /\ nputs' = nputs + 1
    /\ \E entry \in {"solar", "ci", "battery_soc"} :
        resp' = IF redis_get(entry) = None
                THEN Response(entry, 500, NoBody, None)
                ELSE Response(entry, 200, NoBody, redis_get(entry))
    /\ UNCHANGED << scenario, meter_vars, storage_vars, run_vars,
                    server_vars, sim_vars, param_vars, collector, ves_vars,
                    example_vars, pydantic_v1, accepted, returned, since_drain,
                    history_pub >>

----------------------------------------------------------------------------
\* examples/sil_example.py: the routes and the collectors given to the
\* SilController. Broker, get_latest_event, SilController and ComputeNode are
\* not among the source files; they are modelled from the specification's
\* description of the event log and of the drain.

\* Broker.set_event: appends the event to the log of its key, tagged with the
\* time of the write.
set_event(log, key, value, t) == [log EXCEPT ![key] = Append(@, [value |-> value, t |-> t])]

\* get_latest_event: the value of the event with the latest timestamp.
get_latest_event(evs) ==
    LET i == CHOOSE i \in 1..Len(evs) :
                 \A j \in 1..Len(evs) : evs[j].t < evs[i].t \/ (evs[j].t = evs[i].t /\ j <= i)
    IN  evs[i].value

\* The clock read again, a moment after it read t.
Later(t) == {t, IF t < MaxTick THEN t + 1 ELSE t}

\* PUT /battery. BatteryModel declares both fields Optional[float]: null is a
\* valid value, and a field left out is None (pydantic 1) or a 422 (pydantic 2).
\* The handler validates nothing, appends both events and returns nothing.
ex_put_battery ==
    /\ scenario = "example"
    /\ nputs < MaxRequests
    /\ nputs' = nputs + 1
    /\ \E m \in ExampleVals \cup {None, Absent}, g \in ExampleVals \cup {None, Absent},
          t1 \in Ticks :
        \E t2 \in Later(t1) :
        LET battery_model == [min_soc |-> IF m = Absent THEN None ELSE m,
                              grid_charge |-> IF g = Absent THEN None ELSE g]
        IN  IF (m = Absent \/ g = Absent) /\ ~ pydantic_v1
            THEN /\ resp' = Response("put_battery", 422,
                                      [min_soc |-> m, grid_charge |-> g], NoBody)
                 /\ UNCHANGED events
            ELSE /\ events' = set_event(
                                set_event(events, "battery_min_soc",
                                          battery_model.min_soc, t1),
                                "battery_grid_charge", battery_model.grid_charge, t2)
                 /\ resp' = Response("put_battery", 200,
                                      [min_soc |-> m, grid_charge |-> g], NoBody)
    /\ UNCHANGED << scenario, meter_vars, storage_vars, run_vars,
                    server_vars, sim_vars, param_vars, collector, ves_vars,
                    pydantic_v1, accepted, returned, since_drain, history_pub >>

\* PUT /nodes/{node_name}. NodeModel requires a str power_mode; the handler
\* appends the event whatever the string is.
ex_put_nodes ==
    /\ scenario = "example"
    /\ nputs < MaxRequests
    /\ nputs' = nputs + 1
    /\ \E power_mode \in SentModes \cup {AbsentStr}, node_name \in NodeNames, t \in Ticks :
        IF power_mode = AbsentStr
        THEN /\ resp' = Response("put_nodes", 422,
                                  [item_id |-> node_name, power_mode |-> power_mode],
                                  NoBody)
             /\ UNCHANGED events
        ELSE /\ events' = set_event(events, "nodes_power_mode",
                                    [name |-> node_name, mode |-> power_mode], t)
             /\ resp' = Response("put_nodes", 200,
                                  [item_id |-> node_name, power_mode |-> power_mode],
                                  NoBody)
    /\ UNCHANGED << scenario, meter_vars, storage_vars, run_vars,
                    server_vars, sim_vars, param_vars, collector, ves_vars,
                    pydantic_v1, accepted, returned, since_drain, history_pub >>

\* battery_min_soc_collector, grid_charge_collector.
battery_min_soc_collector(evs) == get_latest_event(evs)
grid_charge_collector(evs) == get_latest_event(evs)

\* node_power_mode_collector: set_power_mode of the node the latest event names.
node_power_mode_collector(evs) ==
    LET latest == get_latest_event(evs)
    IN  [node_mode EXCEPT ![latest.name] = latest.mode]

\* The SilController drains the event log: the collector of each key that has
\* pending events is called with them, and the log is cleared.
ex_collect ==
    /\ scenario = "example"
    /\ events # NoEvents
    /\ min_soc' = IF events.battery_min_soc # <<>>
                  THEN battery_min_soc_collector(events.battery_min_soc)
                  ELSE min_soc
    /\ grid_power' = IF events.battery_grid_charge # <<>>
                     THEN grid_charge_collector(events.battery_grid_charge)
                     ELSE grid_power
    /\ node_mode' = IF events.nodes_power_mode # <<>>
                    THEN node_power_mode_collector(events.nodes_power_mode)
                    ELSE node_mode
    /\ events' = NoEvents
    /\ UNCHANGED << scenario, meter_vars, storage_vars, run_vars,
                    server_vars, sim_vars, updated_nodes, collector, ves_vars,
                    pydantic_v1, resp, history_put, history_pub >>

----------------------------------------------------------------------------
\* controller_example.py: a microgrid with a SimpleBattery of capacity 100, the
\* DefaultStoragePolicy and the CarbonAwareController.

\* battery.soc(), in percent.
soc_of(level) == (level * 100) \div Capacity

\* A faulty rule set, for comparison: the minimum soc is raised only above 0.6.
cacu_strict(time, battery_soc, ci_now, node_names) ==
    LET time_of_day == time % (3600 * 24)
    IN  [battery_min_soc |->
             IF 11 * 3600 <= time_of_day /\ time_of_day < 24 * 3600 /\ battery_soc > 60
             THEN 60 ELSE 30,
         grid_power |-> IF ci_now <= 200 /\ battery_soc < 60 THEN 20 ELSE 0,
         nodes_power_mode |->
             [node_name \in node_names |->
                 IF ci_now <= 200 \/ battery_soc > 80 THEN "high performance"
                 ELSE IF ci_now >= 250 /\ battery_soc < 60 THEN "power-saving"
                 ELSE "normal"]]

\* A faulty scenario, for comparison: the time is taken as it is, not as the
\* time of the day.
cacu_since_start(time, battery_soc, ci_now, node_names) ==
    LET time_of_day == time
    IN  [battery_min_soc |->
             IF 11 * 3600 <= time_of_day /\ time_of_day < 24 * 3600 /\ battery_soc >= 60
             THEN 60 ELSE 30,
         grid_power |-> IF ci_now <= 200 /\ battery_soc < 60 THEN 20 ELSE 0,
         nodes_power_mode |->
             [node_name \in node_names |->
                 IF ci_now <= 200 \/ battery_soc > 80 THEN "high performance"
                 ELSE IF ci_now >= 250 /\ battery_soc < 60 THEN "power-saving"
                 ELSE "normal"]]

\* cacu_scenario: battery_soc and battery_min_soc in percent.
cacu_scenario(time, battery_soc, ci_now, node_names) ==
    LET time_of_day == time % (3600 * 24)
    IN  [battery_min_soc |->
             IF 11 * 3600 <= time_of_day /\ time_of_day < 24 * 3600 /\ battery_soc >= 60
             THEN 60 ELSE 30,
         grid_power |-> IF ci_now <= 200 /\ battery_soc < 60 THEN 20 ELSE 0,
         nodes_power_mode |->
             [node_name \in node_names |->
                 IF ci_now <= 200 \/ battery_soc > 80 THEN "high performance"
                 ELSE IF ci_now >= 250 /\ battery_soc < 60 THEN "power-saving"
                 ELSE "normal"]]

\* Microgrid.step with DefaultStoragePolicy.apply: the policy requests the power
\* delta less policy.grid_power of the storage, and what the storage returns as
\* excess goes to the grid. The battery has no charge power limit. Then the
\* controllers are stepped.
microgrid_step ==
    /\ scenario = "controller"
    /\ micro.pc = "idle"
    /\ nsteps < MaxSteps
    /\ \E p_delta \in MicrogridDeltas :
          LET battery_power == p_delta - grid_power
              r == update(charge_level, min_soc, battery_power, 1)
          IN  /\ charge_level' = r.charge_level
              /\ micro' = [NoStep EXCEPT !.pc = "control",
                                         !.p_delta = p_delta,
                                         !.begin_min_soc = min_soc,
                                         !.begin_grid = grid_power,
                                         !.request = battery_power,
                                         !.used_min_soc = min_soc,
                                         !.before = charge_level,
                                         !.excess = r.excess,
                                         !.grid_power = p_delta - battery_power + r.excess]
    /\ UNCHANGED << scenario, meter_vars, run_vars, server_vars, phase, p_gen, ci, soc, nsteps,
                    threads, param_vars, collector, ves_vars, example_vars, pydantic_v1,
                    resp, history_put, history_pub >>

\* CarbonAwareController.step, first half: it reads the time, the battery's soc
\* and the carbon intensity at that time, and computes the new state.
controller_step_decide ==
    /\ scenario = "controller"
    /\ micro.pc = "control"
    /\ \E time \in CacuTimes, ci_now \in CacuCi :
          micro' = [micro EXCEPT !.pc = "decided",
                                 !.time = time,
                                 !.ci = ci_now,
                                 !.battery_soc = soc_of(charge_level),
                                 !.new_state = cacu_scenario(time, soc_of(charge_level),
                                                             ci_now, PowerMeters)]
    /\ UNCHANGED << scenario, meter_vars, charge_level, run_vars, server_vars, sim_vars, param_vars,
                    collector, ves_vars, example_vars, pydantic_v1, resp, history_put,
                    history_pub >>

\* A faulty setter of MockPowerMeter, for comparison: the value is stored before it is checked.
set_power_then_check(self, value) ==
    [self |-> [self EXCEPT !._p = value],
     raised |-> IF value < 0 THEN "ValueError" ELSE "none"]

\* MockPowerMeter.set_power (vessim/power_meter.py): the object afterwards and the exception raised.
set_power(self, value) ==
    IF value < 0
    THEN [self |-> self, raised |-> "ValueError"]
    ELSE [self |-> [self EXCEPT !._p = value], raised |-> "none"]

\* A faulty table, for comparison: one power has the wrong sign.
POWER_MODES_signed ==
    [name \in PowerMeters |->
        IF name = "mpm0"
        THEN ("high performance" :> 2964 @@ "normal" :> 2194 @@ "power-saving" :> 1781)
        ELSE ("high performance" :> 8800 @@ "normal" :> 7600 @@ "power-saving" :> 0 - 6800)]

\* POWER_MODES, in milliwatts.
POWER_MODES ==
    [name \in PowerMeters |->
        IF name = "mpm0"
        THEN ("high performance" :> 2964 @@ "normal" :> 2194 @@ "power-saving" :> 1781)
        ELSE ("high performance" :> 8800 @@ "normal" :> 7600 @@ "power-saving" :> 6800)]

\* self.power_meters, in list order.
power_meter_names == << "mpm0", "mpm1" >>

\* The loop of CarbonAwareController.step over the power meters that are left:
\* node.set_power(POWER_MODES[node.name][mode of the node]). The meters afterwards
\* and the exception that ended the loop: KeyError for a mode that is no key of
\* the node's table, ValueError from set_power.
RECURSIVE set_power_of_each(_, _, _)
set_power_of_each(meters, names, modes) ==
    IF names = << >> THEN [meters |-> meters, raised |-> "none"]
    ELSE LET name == Head(names)
         IN  IF modes[name] \notin DOMAIN POWER_MODES[name]
             THEN [meters |-> meters, raised |-> "KeyError"]
             ELSE LET r == set_power(meters[name], POWER_MODES[name][modes[name]])
                  IN  IF r.raised # "none"
                      THEN [meters |-> meters, raised |-> r.raised]
                      ELSE set_power_of_each([meters EXCEPT ![name] = r.self],
                                             Tail(names), modes)

\* CarbonAwareController.step, second half: the new state is written to the
\* policy, the battery and the power meters (set_power: the mode's power). An
\* exception ends the step and with it the run.
controller_step_apply ==
    /\ scenario = "controller"
    /\ micro.pc = "decided"
    /\ grid_power' = micro.new_state.grid_power
    /\ min_soc' = micro.new_state.battery_min_soc
    /\ node_mode' = micro.new_state.nodes_power_mode
    /\ LET r == set_power_of_each(power_meters, power_meter_names,
                                  micro.new_state.nodes_power_mode)
       IN  /\ power_meters' = r.meters
           /\ outcome' = Outcome("step", 0, r.raised, None)
           /\ micro' = [micro EXCEPT !.pc = IF r.raised = "none" THEN "idle" ELSE "failed",
                                     !.time = 0, !.ci = 0, !.battery_soc = 0,
                                     !.new_state = NoState]
    /\ nsteps' = nsteps + 1
    /\ UNCHANGED << scenario, mock, last_set, fpm, file_arg, carbon_vars, first_query, boot,
                    node_meter, charge_level, run_vars, server_vars, phase, p_gen, ci, soc,
                    threads, updated_nodes, collector, ves_vars, example_vars,
                    pydantic_v1, resp, history_put, history_pub >>

----------------------------------------------------------------------------
\* vessim/power_meter.py: MockPowerMeter. The name is given by the caller.

\* Powers a caller passes to the constructor and to set_power.
MockPowers == {0 - 1, 0, 5}
\* The times of queries, and of the rows of data files.
QueryTimes == 0 .. MaxTime

\* MockPowerMeter(p): on ValueError no object comes to exist, and the one
\* constructed before stays.
MockPowerMeter_init ==
    /\ scenario = "mock"
    /\ \E p \in MockPowers :
          IF p < 0
          THEN /\ outcome' = Outcome("__init__", p, "ValueError", None)
               /\ UNCHANGED << mock, last_set, first_query >>
          ELSE /\ mock' = [alive |-> TRUE, _p |-> p]
               /\ outcome' = Outcome("__init__", p, "none", None)
               /\ last_set' = p
               /\ first_query' = NoQuery
    /\ UNCHANGED << scenario, system_vars, power_meters, boot, node_meter, fpm, file_arg, carbon_vars >>

MockPowerMeter_set_power ==
    /\ scenario = "mock"
    /\ mock.alive
    /\ \E value \in MockPowers :
          LET r == set_power(mock, value)
          IN  /\ mock' = r.self
              /\ outcome' = Outcome("set_power", value, r.raised, None)
              /\ last_set' = IF r.raised = "none" THEN value ELSE last_set
              /\ first_query' = IF r.raised = "none" THEN NoQuery ELSE first_query
    /\ UNCHANGED << scenario, system_vars, power_meters, boot, node_meter, fpm, file_arg, carbon_vars >>

MockPowerMeter_measure ==
    /\ scenario = "mock"
    /\ mock.alive
    /\ \E now \in QueryTimes :
          LET r == [raised |-> "none", value |-> mock._p]
          IN  /\ outcome' = Outcome("measure", now, r.raised, r.value)
              /\ first_query' = remember(first_query, now, NoZone, r)
    /\ UNCHANGED << scenario, system_vars, power_meters, boot, node_meter, mock, last_set, fpm, file_arg, carbon_vars >>

----------------------------------------------------------------------------
\* vessim/power_meter.py: FilePowerMeter. A file is the sequence of its data rows
\* [time, power] below the header line; read_csv and to_datetime give each row's
\* time as a timestamp, modelled as a number.

FileTimes == 1 .. MaxTime - 1
FilePowers == {5, 7}
Rows == [time : FileTimes, power : FilePowers]
Files == UNION {[1 .. n -> Rows] : n \in 0 .. MaxRows}
\* The units a caller passes; "GW" is not supported.
Units == {"W", "kW", "MW", "GW"}

\* data.sort_index(): the rows in ascending order of time.
RECURSIVE sort_index(_)
sort_index(data) ==
    IF data = <<>> THEN <<>>
    ELSE LET rest == sort_index(Tail(data))
             first == Head(data)
             before == SelectSeq(rest, LAMBDA r : r.time < first.time)
             after == SelectSeq(rest, LAMBDA r : r.time >= first.time)
         IN  before \o << first >> \o after

is_monotonic_increasing(data) ==
    \A i, j \in 1 .. Len(data) : i < j => data[i].time <= data[j].time
is_monotonic_decreasing(data) ==
    \A i, j \in 1 .. Len(data) : i < j => data[i].time >= data[j].time
is_unique(data) ==
    \A i, j \in 1 .. Len(data) : i # j => data[i].time # data[j].time

\* The condition of the first raise:
\* not data.index.is_monotonic_increasing or data.index.is_monotonic_decreasing.
refuses_monotonic(data) ==
    (~ is_monotonic_increasing(data)) \/ is_monotonic_decreasing(data)

\* _load_data: the sorted data, or ValueError.
_load_data(file) ==
    LET data == sort_index(file)
    IN  IF refuses_monotonic(data) THEN [raised |-> "ValueError", data |-> <<>>]
        ELSE IF ~ is_unique(data) THEN [raised |-> "ValueError", data |-> <<>>]
        ELSE [raised |-> "none", data |-> data]

\* FilePowerMeter(file_path, unit): the data is loaded and the unit stored as it
\* is given. One meter is constructed in a run.
FilePowerMeter_init ==
    /\ scenario = "file"
    /\ outcome = NoOutcome
    /\ \E file \in Files, unit \in Units :
          LET r == _load_data(file)
          IN  /\ file_arg' = file
              /\ outcome' = Outcome("__init__", Len(file), r.raised, None)
              /\ fpm' = IF r.raised = "none"
                        THEN [alive |-> TRUE, data |-> r.data, unit |-> unit]
                        ELSE fpm
              /\ unit_arg' = unit
    /\ first_query' = NoQuery
    /\ UNCHANGED << scenario, system_vars, power_meters, boot, node_meter, mock, last_set, trace, agent, zone_arg >>

\* A faulty lookup, for comparison: a cursor that only moves forward, so that
\* no row is found for a time before that of the last query.
asof_forward_only(data, now) ==
    LET labels == {data[i].time : i \in 1 .. Len(data)}
        upto == {t \in labels : t <= now}
    IN  IF upto = {} \/ (outcome.op = "measure" /\ outcome.arg > now) THEN None
        ELSE CHOOSE t \in upto : \A u \in upto : u <= t

\* index.asof(now): the greatest label at or before now, or NaT (None).
asof(data, now) ==
    LET labels == {data[i].time : i \in 1 .. Len(data)}
        upto == {t \in labels : t <= now}
    IN  IF upto = {} THEN None ELSE CHOOSE t \in upto : \A u \in upto : u <= t

\* data.at[label, 'power'] on a unique index.
at(data, label) == (CHOOSE i \in 1 .. Len(data) : data[i].time = label)

\* _convert_power_to_watts: the power in watts, or ValueError.
_convert_power_to_watts(power, unit) ==
    IF unit = "W" THEN [raised |-> "none", value |-> power]
    ELSE IF unit = "kW" THEN [raised |-> "none", value |-> power * 1000]
    ELSE IF unit = "MW" THEN [raised |-> "none", value |-> power * 1000000]
    ELSE [raised |-> "ValueError", value |-> None]

FilePowerMeter_measure ==
    /\ scenario = "file"
    /\ fpm.alive
    /\ \E now \in QueryTimes :
          LET last_valid_time == asof(fpm.data, now)
              r == IF last_valid_time = None
                   THEN [raised |-> "ValueError", value |-> None]
                   ELSE _convert_power_to_watts(
                            fpm.data[at(fpm.data, last_valid_time)].power, fpm.unit)
          IN  /\ outcome' = Outcome("measure", now, r.raised, r.value)
              /\ first_query' = remember(first_query, now, NoZone, r)
    /\ UNCHANGED << scenario, system_vars, power_meters, boot, node_meter, mock, last_set, fpm, file_arg, carbon_vars >>

----------------------------------------------------------------------------
\* vessim/core/simulator.py: TraceSimulator, CarbonApi and Generator, and
\* simulator/carbon_controller.py: CarbonAgent. A table is a DataFrame: its
\* columns (zones), its index (timestamps), and the factor its values have been
\* multiplied with, in units of 1e-8.

TraceTables == {[zones |-> {"DE"}, index |-> {1, 2}, scale |-> g_per_kWh_factor],
                [zones |-> {"DE", "FR"}, index |-> {2}, scale |-> g_per_kWh_factor]}
CarbonUnits == {"g_per_kWh", "lb_per_MWh", "kg_per_kWh"}
Zones == {"DE", "FR", "XX", NoZone}

\* table * factor.
scaled(table, factor) ==
    [table EXCEPT !.scale = (@ \div g_per_kWh_factor) * factor]

\* CarbonApi.__init__: the object, or the exception raised. None * 0.45359237
\* raises TypeError.
CarbonApi(actual, forecast, unit) ==
    IF unit = "lb_per_MWh"
    THEN IF forecast = NoTable
         THEN [raised |-> "TypeError", self |-> NoTrace]
         ELSE [raised |-> "none",
               self |-> [alive |-> TRUE, kind |-> "CarbonApi",
                         actual |-> scaled(actual, lb_per_MWh_factor),
                         forecast |-> scaled(forecast, lb_per_MWh_factor)]]
    ELSE IF unit # "g_per_kWh"
    THEN [raised |-> "ValueError", self |-> NoTrace]
    ELSE [raised |-> "none",
          self |-> [alive |-> TRUE, kind |-> "CarbonApi", actual |-> actual,
                    forecast |-> forecast]]

CarbonApi_init ==
    /\ scenario = "carbon"
    /\ ~ trace.alive
    /\ \E actual \in TraceTables, forecast \in TraceTables \cup {NoTable},
          unit \in CarbonUnits :
          LET r == CarbonApi(actual, forecast, unit)
          IN  /\ trace' = IF r.raised = "none" THEN r.self ELSE trace
              /\ outcome' = Outcome("CarbonApi", 0, r.raised, None)
              /\ unit_arg' = unit
    /\ first_query' = NoQuery
    /\ UNCHANGED << scenario, system_vars, power_meters, boot, node_meter, mock, last_set, fpm, file_arg, agent, zone_arg >>

\* Generator(actual, forecast): TraceSimulator.__init__.
Generator_init ==
    /\ scenario = "carbon"
    /\ ~ trace.alive
    /\ \E actual \in TraceTables, forecast \in TraceTables \cup {NoTable} :
          trace' = [alive |-> TRUE, kind |-> "Generator", actual |-> actual,
                    forecast |-> forecast]
    /\ outcome' = Outcome("Generator", 0, "none", None)
    /\ first_query' = NoQuery
    /\ UNCHANGED << scenario, system_vars, power_meters, boot, node_meter, mock, last_set, fpm, file_arg, agent,
                    unit_arg, zone_arg >>

\* The attributes __init__ sets on a TraceSimulator.
trace_attributes == {"actual", "forecast"}

\* actual_at: the zone is settled first; then the row is looked up with
\* self.data.index.asof(dt), and data is no attribute of the object: the
\* AttributeError is not caught by the except KeyError around it.
actual_at(self, dt, zone) ==
    LET zones == self.actual.zones
    IN  IF zone = NoZone /\ Cardinality(zones) # 1
        THEN [raised |-> "ValueError", value |-> None]
        ELSE LET the_zone == IF zone = NoZone THEN CHOOSE z \in zones : TRUE ELSE zone
             IN  IF the_zone \notin zones
                 THEN [raised |-> "ValueError", value |-> None]
                 ELSE IF "data" \notin trace_attributes
                 THEN [raised |-> "AttributeError", value |-> None]
                 ELSE [raised |-> "none", value |-> dt]

\* actual_at, and the two methods that return what it returns:
\* Generator.power_at and CarbonApi.carbon_intensity_at.
TraceSimulator_actual_at ==
    /\ scenario = "carbon"
    /\ trace.alive
    /\ \E dt \in QueryTimes, zone \in Zones,
          op \in {"actual_at"} \cup (IF trace.kind = "Generator" THEN {"power_at"}
                                     ELSE {"carbon_intensity_at"}) :
          LET r == actual_at(trace, dt, zone)
          IN  /\ outcome' = Outcome(op, dt, r.raised, r.value)
              /\ zone_arg' = zone
              /\ first_query' = remember(first_query, dt, zone, r)
    /\ UNCHANGED << scenario, system_vars, power_meters, boot, node_meter, mock, last_set, fpm, file_arg, trace, agent,
                    unit_arg >>

\* CarbonAgent.__init__: the object, or ValueError.
CarbonAgent(unit) ==
    IF unit = "g_per_kWh"
    THEN [raised |-> "none",
          self |-> [alive |-> TRUE, carbon_conversion_factor |-> g_per_kWh_factor,
                    ci |-> 0, intensity_input |-> 0]]
    ELSE IF unit = "lb_per_MWh"
    THEN [raised |-> "none",
          self |-> [alive |-> TRUE, carbon_conversion_factor |-> lb_per_MWh_factor,
                    ci |-> 0, intensity_input |-> 0]]
    ELSE [raised |-> "ValueError", self |-> NoAgent]

CarbonAgent_init ==
    /\ scenario = "agent"
    /\ ~ agent.alive
    /\ \E unit \in CarbonUnits :
          LET r == CarbonAgent(unit)
          IN  /\ agent' = IF r.raised = "none" THEN r.self ELSE agent
              /\ outcome' = Outcome("CarbonAgent", 0, r.raised, None)
              /\ unit_arg' = unit
    /\ UNCHANGED << scenario, system_vars, power_meters, boot, node_meter, mock, last_set, fpm, file_arg, trace, zone_arg,
                    first_query >>

\* CarbonAgent.step: ci = abs(intensity_input * carbon_conversion_factor), in
\* units of 1e-8.
CarbonAgent_step ==
    /\ scenario = "agent"
    /\ agent.alive
    /\ LET product == agent.intensity_input * agent.carbon_conversion_factor
       IN  agent' = [agent EXCEPT !.ci = IF product < 0 THEN 0 - product ELSE product]
    /\ outcome' = Outcome("step", 0, "none", None)
    /\ UNCHANGED << scenario, system_vars, power_meters, boot, node_meter, mock, last_set, fpm, file_arg, trace,
                    unit_arg, zone_arg, first_query >>

----------------------------------------------------------------------------
\* The construction of the SiL model: _SilInterfaceModel.__init__ and
\* VessimApiServer.__init__.

\* ApiServer.__init__(self, host, port) takes at most two arguments beside self;
\* VessimApiServer.__init__ calls it with three: app, host, port.
ApiServer_init_takes == {"host", "port"}
VessimApiServer_init_passes == << "app", "host", "port" >>

\* VessimApiServer(api_host, api_port): what the constructor raises.
VessimApiServer_init ==
    IF Len(VessimApiServer_init_passes) > Cardinality(ApiServer_init_takes)
    THEN "TypeError" ELSE "none"

\* _SilInterfaceModel.__init__: the attributes are set and the server is
\* constructed; the constructor's exception ends __init__ before start(),
\* wait_for_startup_complete(), the initial PUT /sim/update and the start of
\* the collector thread.
SilInterfaceModel_init ==
    /\ scenario = "startup"
    /\ boot.pc = "new"
    /\ boot' = IF VessimApiServer_init # "none"
               THEN [boot EXCEPT !.pc = "raised", !.raised = VessimApiServer_init]
               ELSE [boot EXCEPT !.pc = "start"]
    /\ UNCHANGED << scenario, system_vars, power_meters, mock, outcome, last_set, fpm, file_arg,
                    carbon_vars, first_query, node_meter >>

----------------------------------------------------------------------------
\* simulator/power_meter.py: NodeApiMeter. HTTPClient is not among the source
\* files: a GET returns the response's body or raises.

\* What the node API answers to GET /power.
NodePowers == {5, 7}

\* NodeApiMeter(server_address): power is 0 and the daemon update thread starts.
NodeApiMeter_init ==
    /\ scenario = "node"
    /\ ~ node_meter.alive
    /\ node_meter' = [alive |-> TRUE, power |-> 0, update_thread |-> "request",
                      del |-> "none"]
    /\ outcome' = Outcome("__init__", 0, "none", None)
    /\ UNCHANGED << scenario, system_vars, power_meters, boot, mock, last_set, fpm, file_arg,
                    carbon_vars, first_query >>

\* _update_power, the request: the answer is stored as the power, or the request
\* raises; nothing in the loop catches the exception, and the thread ends.
NodeApiMeter_update_power ==
    /\ scenario = "node"
    /\ node_meter.update_thread = "request"
    /\ \/ \E answer \in NodePowers :
             node_meter' = [node_meter EXCEPT !.power = answer, !.update_thread = "sleep"]
       \/ node_meter' = [node_meter EXCEPT !.update_thread = "dead"]
    /\ UNCHANGED << scenario, system_vars, power_meters, boot, mock, outcome, last_set, fpm, file_arg,
                    carbon_vars, first_query >>

\* _update_power, time.sleep(interval) has ended: while True has no exit.
NodeApiMeter_sleep ==
    /\ scenario = "node"
    /\ node_meter.update_thread = "sleep"
    /\ node_meter' = [node_meter EXCEPT !.update_thread = "request"]
    /\ UNCHANGED << scenario, system_vars, power_meters, boot, mock, outcome, last_set, fpm, file_arg,
                    carbon_vars, first_query >>

\* __call__: the power stored last.
NodeApiMeter_call ==
    /\ scenario = "node"
    /\ node_meter.alive
    /\ outcome' = Outcome("__call__", 0, "none", node_meter.power)
    /\ UNCHANGED << scenario, system_vars, power_meters, boot, node_meter, mock, last_set, fpm,
                    file_arg, carbon_vars, first_query >>

\* The update thread is alive.
is_alive(self) == self.update_thread \in {"request", "sleep"}

\* __del__ is called: it returns at once if the thread is not alive, and joins
\* the thread otherwise.
NodeApiMeter_del ==
    /\ scenario = "node"
    /\ node_meter.alive
    /\ node_meter.del = "none"
    /\ node_meter' = [node_meter EXCEPT
                        !.del = IF is_alive(node_meter) THEN "joining" ELSE "returned"]
    /\ outcome' = Outcome("__del__", 0, "none", None)
    /\ UNCHANGED << scenario, system_vars, power_meters, boot, mock, last_set, fpm, file_arg,
                    carbon_vars, first_query >>

\* update_thread.join() returns: the thread has ended.
NodeApiMeter_del_joined ==
    /\ scenario = "node"
    /\ node_meter.del = "joining"
    /\ ~ is_alive(node_meter)
    /\ node_meter' = [node_meter EXCEPT !.del = "returned"]
    /\ UNCHANGED << scenario, system_vars, power_meters, boot, mock, outcome, last_set, fpm, file_arg,
                    carbon_vars, first_query >>

----------------------------------------------------------------------------
Next ==
    \/ InitialPublish
    \/ put_battery
    \/ put_nodes
    \/ get_collect_set
    \/ api_collector
    \/ step
    \/ thread_read
    \/ thread_put_update
    \/ thread_error
    \/ get_routes
    \/ MockPowerMeter_init
    \/ MockPowerMeter_set_power
    \/ MockPowerMeter_measure
    \/ FilePowerMeter_init
    \/ FilePowerMeter_measure
    \/ CarbonApi_init
    \/ Generator_init
    \/ TraceSimulator_actual_at
    \/ CarbonAgent_init
    \/ CarbonAgent_step
    \/ SilInterfaceModel_init
    \/ NodeApiMeter_init
    \/ NodeApiMeter_update_power
    \/ NodeApiMeter_sleep
    \/ NodeApiMeter_call
    \/ NodeApiMeter_del
    \/ NodeApiMeter_del_joined
    \/ microgrid_step
    \/ controller_step_decide
    \/ controller_step_apply
    \/ finalize_stop_collector
    \/ finalize_terminate
    \/ ves_put_battery
    \/ ves_put_nodes
    \/ ves_get_routes
    \/ ves_step_begin
    \/ ves_step_battery
    \/ ex_put_battery
    \/ ex_put_nodes
    \/ ex_collect

Spec == Init /\ [][Next]_vars

\* The scheduling of the NodeApiMeter's threads: a thread that can take its next
\* step takes it. That a request fails is not for the scheduling to decide.
NodeApiMeter_polls ==
    /\ NodeApiMeter_update_power
    /\ node_meter'.update_thread # "dead"
FairSpec ==
    /\ Spec
    /\ WF_vars(NodeApiMeter_polls)
    /\ WF_vars(NodeApiMeter_sleep)
    /\ WF_vars(NodeApiMeter_del_joined)

----------------------------------------------------------------------------
\* Properties of the collect path.

\* The accepted PUT /api/battery writes, by their place in arrival order.
BatteryWrites == {i \in 1..Len(accepted) : accepted[i].kind = "battery"}

\* The fields of hash log whose entry no other entry is later than, by the clock
\* reading of its write.
LatestFields(log) == {f \in DOMAIN log : \A g \in DOMAIN log : log[g].t <= log[f].t}

\* The collector thread finishes the drain of a collection in this step.
DrainApplied == collector.pc = "apply" /\ collector'.pc # "apply"

\* No entry of hash log is from a write that has an entry in hash pending.
Discarded(log, pending) ==
    \A f \in DOMAIN log : \A h \in DOMAIN pending : pending[h].id # log[f].id

\* C1: a drain that finds pending events of battery_min_soc (battery_grid_charge)
\* applies to battery.min_soc (policy.grid_power) the value of the one with the
\* greatest timestamp, whatever their order of arrival; the others are dropped:
\* after the drain they are in no log and in no collection.
C1_LastWriteWinsDrain ==
    [][ DrainApplied =>
          LET c == collector.collection
          IN  /\ DOMAIN c.battery_min_soc # {} =>
                    \E f \in LatestFields(c.battery_min_soc) :
                        min_soc' = c.battery_min_soc[f].val
              /\ DOMAIN c.battery_grid_charge # {} =>
                    \E f \in LatestFields(c.battery_grid_charge) :
                        grid_power' = c.battery_grid_charge[f].val
              /\ collector'.collection = NoCollection
              /\ Discarded(c.battery_min_soc, battery_min_soc_log')
              /\ Discarded(c.battery_grid_charge, battery_grid_charge_log')
      ]_vars

\* Two writes arrived in the order opposite to their timestamps, with different
\* values; one drain returned both and applied the first, the later by timestamp.
C1_Witness ==
    /\ scenario = "collect"
    /\ Len(accepted) = 2
    /\ BatteryWrites = {1, 2}
    /\ accepted[1].t > accepted[2].t
    /\ accepted[1].min_soc # accepted[2].min_soc
    /\ accepted[1].grid_charge # accepted[2].grid_charge
    /\ returned[1].battery_min_soc = 1
    /\ returned[2].battery_min_soc = 1
    /\ collector.pc = "idle"
    /\ min_soc = accepted[1].min_soc
    /\ grid_power = accepted[1].grid_charge

\* The write an entry of hash log is from is write i.
Pending(log, i) == \E f \in DOMAIN log : log[f].id = i

\* C2: every event accepted by a PUT is returned by exactly one collect-set call:
\* while it is pending it has been returned by none, and once it is no longer in
\* its log it has been returned by exactly one.
C2_EveryEventReturnedOnce ==
    \A i \in 1..Len(accepted) :
        IF accepted[i].kind = "battery"
        THEN /\ returned[i].battery_min_soc =
                    (IF Pending(battery_min_soc_log, i) THEN 0 ELSE 1)
             /\ returned[i].battery_grid_charge =
                    (IF Pending(battery_grid_charge_log, i) THEN 0 ELSE 1)
        ELSE returned[i].nodes_power_mode = (IF Pending(power_mode_log, i) THEN 0 ELSE 1)

\* What holds of collect-set itself: it deletes no entry it does not return, and
\* no event is returned by two calls.
CollectSetReturnsWhatItDeletes ==
    /\ \A i \in 1..Len(accepted) :
          /\ returned[i].battery_min_soc <= 1
          /\ returned[i].battery_grid_charge <= 1
          /\ returned[i].nodes_power_mode <= 1
          /\ returned[i].battery_min_soc = 1 => ~ Pending(battery_min_soc_log, i)
          /\ returned[i].battery_grid_charge = 1 => ~ Pending(battery_grid_charge_log, i)
          /\ returned[i].nodes_power_mode = 1 => ~ Pending(power_mode_log, i)
    /\ collector.pc = "apply" =>
          /\ Discarded(collector.collection.battery_min_soc, battery_min_soc_log)
          /\ Discarded(collector.collection.battery_grid_charge, battery_grid_charge_log)
          /\ Discarded(collector.collection.nodes_power_mode, power_mode_log)

\* Every accepted battery write has been drained and the drain has been applied.
Settled ==
    /\ scenario = "collect"
    /\ BatteryWrites # {}
    /\ DOMAIN battery_min_soc_log = {}
    /\ DOMAIN battery_grid_charge_log = {}
    /\ collector.pc # "apply"

\* C3 as stated: once the writes are drained and applied, battery.min_soc and
\* policy.grid_power are those of the accepted write with the greatest timestamp.
C3_FinalIsGreatestTimestamp ==
    Settled =>
        \E w \in BatteryWrites :
            /\ \A v \in BatteryWrites : accepted[v].t <= accepted[w].t
            /\ min_soc = accepted[w].min_soc
            /\ grid_power = accepted[w].grid_charge

\* C3 as amended: they are those of an accepted write after which only writes with
\* a strictly smaller timestamp arrived (the last write, when the clock never
\* steps back); in particular never the values from before the writes.
C3_FinalIsAnUnsupersededWrite ==
    Settled =>
        \E w \in BatteryWrites :
            /\ \A v \in BatteryWrites : v > w => accepted[v].t < accepted[w].t
            /\ min_soc = accepted[w].min_soc
            /\ grid_power = accepted[w].grid_charge

\* Two writes, each drained and applied on its own, the second with the smaller
\* timestamp: the second write's values stand.
C3_Witness ==
    /\ Settled
    /\ BatteryWrites = {1, 2}
    /\ accepted[2].t < accepted[1].t
    /\ accepted[1].min_soc # accepted[2].min_soc
    /\ returned[1].battery_min_soc = 1
    /\ returned[2].battery_min_soc = 1
    /\ min_soc = accepted[2].min_soc
    /\ grid_power = accepted[2].grid_charge

\* C4: a drain that finds the log of a key empty leaves that key's parameter as
\* it was: battery.min_soc, policy.grid_power, and for nodes_power_mode every
\* node's power_mode and the updated_nodes list.
C4_EmptyLogLeavesParameter ==
    [][ DrainApplied =>
          LET c == collector.collection
          IN  /\ DOMAIN c.battery_min_soc = {} => min_soc' = min_soc
              /\ DOMAIN c.battery_grid_charge = {} => grid_power' = grid_power
              /\ DOMAIN c.nodes_power_mode = {} =>
                    node_mode' = node_mode /\ updated_nodes' = updated_nodes
      ]_vars

\* An earlier drain applied a write to both parameters; the drain applied last
\* found every log empty: the parameters still hold the written values.
C4_Witness ==
    /\ scenario = "collect"
    /\ BatteryWrites = {1}
    /\ returned[1].battery_min_soc = 1
    /\ collector.pc = "idle"
    /\ collector.found = {}
    /\ min_soc = accepted[1].min_soc
    /\ grid_power = accepted[1].grid_charge

\* C5: k accepted writes between two drains leave k pending entries (a battery
\* write one in each battery log, a nodes write one in the power-mode log).
C5_EveryWriteItsOwnEntry ==
    /\ Cardinality(DOMAIN battery_min_soc_log) + Cardinality(DOMAIN power_mode_log)
          = since_drain
    /\ Cardinality(DOMAIN battery_grid_charge_log) + Cardinality(DOMAIN power_mode_log)
          = since_drain

----------------------------------------------------------------------------
\* Properties of the PUT handlers.

\* A step that handled a PUT to a nodes endpoint / a battery endpoint.
PutNodesStep == nputs' = nputs + 1 /\ resp'.op = "put_nodes"
PutBatteryStep == nputs' = nputs + 1 /\ resp'.op = "put_battery"

\* C6: a PUT to a nodes endpoint whose power_mode is not one of the allowed
\* modes is answered with status 400, appends no event to a power-mode log and
\* leaves the power mode of every node unchanged: the nodes_power_mode map, the
\* store hash and the node objects.
C6_InvalidPowerModeRejected ==
    [][ (PutNodesStep /\ resp'.request.power_mode \notin power_modes \cup {AbsentStr})
        => /\ resp'.status = 400
           /\ power_mode_log' = power_mode_log
           /\ events'.nodes_power_mode = events.nodes_power_mode
           /\ nodes_power_mode' = nodes_power_mode
           /\ ves_redis'.nodes = ves_redis.nodes
           /\ node_mode' = node_mode ]_vars

\* For comparison: the handlers of api_server.py and of the virtual energy
\* system do reject such a PUT, with 400 or, where the path's item_id has to be
\* an integer and is none, with 422; nothing is appended or changed.
ValidatingHandlersReject ==
    [][ (PutNodesStep /\ scenario \in {"collect", "ves"}
           /\ resp'.request.power_mode \notin power_modes \cup {AbsentStr})
        => /\ resp'.status = IF scenario = "ves" /\ ~ IsIntLiteral(resp'.request.item_id)
                             THEN 422 ELSE 400
           /\ power_mode_log' = power_mode_log
           /\ nodes_power_mode' = nodes_power_mode
           /\ ves_redis'.nodes = ves_redis.nodes
           /\ node_mode' = node_mode ]_vars

\* C7: in every reachable state every entry of a nodes_power_mode event log
\* carries an allowed power mode, and so does every node's power mode.
C7_OnlyAllowedPowerModes ==
    /\ \A k \in DOMAIN power_mode_log : power_mode_log[k].mode \in power_modes
    /\ \A i \in 1..Len(events.nodes_power_mode) :
           events.nodes_power_mode[i].value.mode \in power_modes
    /\ \A n \in DOMAIN nodes_power_mode : nodes_power_mode[n] \in power_modes
    /\ \A n \in DOMAIN node_mode : node_mode[n] \in power_modes

\* The events a PUT /battery appended: one to each battery log, under one timestamp.
OneEventEachSameTimestamp ==
    CASE scenario = "collect" ->
           \E k \in (DOMAIN battery_min_soc_log') \ DOMAIN battery_min_soc_log :
              /\ DOMAIN battery_min_soc_log' = DOMAIN battery_min_soc_log \cup {k}
              /\ DOMAIN battery_grid_charge_log' = DOMAIN battery_grid_charge_log \cup {k}
              /\ k \notin DOMAIN battery_grid_charge_log
      [] scenario = "example" ->
           /\ Len(events'.battery_min_soc) = Len(events.battery_min_soc) + 1
           /\ Len(events'.battery_grid_charge) = Len(events.battery_grid_charge) + 1
           /\ events'.battery_min_soc[Len(events'.battery_min_soc)].t
                = events'.battery_grid_charge[Len(events'.battery_grid_charge)].t
      [] OTHER -> TRUE

\* C8: a PUT /battery carrying both min_soc and grid_charge appends exactly one
\* event to each battery log, both with the same timestamp, and returns the
\* payload; one that lacks a field is answered with 422, appends to neither log
\* and changes neither battery.min_soc nor the grid-charge value.
C8_PutBatteryContract ==
    [][ PutBatteryStep
        => IF resp'.request.min_soc # Absent /\ resp'.request.grid_charge # Absent
           THEN /\ resp'.status = 200
                /\ resp'.body = resp'.request
                /\ OneEventEachSameTimestamp
           ELSE /\ resp'.status = 422
                /\ battery_min_soc_log' = battery_min_soc_log
                /\ battery_grid_charge_log' = battery_grid_charge_log
                /\ events' = events
                /\ min_soc' = min_soc
                /\ grid_power' = grid_power ]_vars

----------------------------------------------------------------------------
\* Properties of the published snapshot.

\* C9: the GET routes answer null as long as nothing has been published; once
\* the publish of the last executed step has completed, they answer that step's
\* values, not those of the initial state or of an earlier step.
C9_GetReturnsLatestStep ==
    scenario = "publish" =>
        /\ phase = "boot" =>
              (get_solar = None /\ get_ci = None /\ get_battery_soc = None)
        /\ (nsteps >= 1 /\ last_delivered) =>
              (get_solar = p_gen /\ get_ci = ci /\ get_battery_soc = soc)

\* C10: at every instant the stored triple is entirely the triple of one PUT
\* /sim/update, the one handled last; it is never a mix of fields of two.
C10_SnapshotIsOnePublish ==
    scenario \in {"collect", "publish"} => store = last_published

\* The publish of a step has replaced the initial publish, whose solar and ci
\* were 0, and a second step's publish is still on its way.
C10_Witness ==
    /\ scenario = "publish"
    /\ nsteps = 2
    /\ store = last_published
    /\ store.solar \in InputVals
    /\ store.ci \in InputVals
    /\ \E th \in threads : th.pc = "sent"

\* C11: publishes take effect in step order. Once the values of the last
\* executed step are in the snapshot, the snapshot keeps them until the next
\* step (it does not revert to an earlier step's values), and when every publish
\* thread has finished and that step's publish was handled, the snapshot holds
\* the values of the last executed step.
C11_PublishesInStepOrder ==
    [][ /\ (scenario = "publish" /\ nsteps >= 1 /\ last_delivered
              /\ store = Snapshot /\ nsteps' = nsteps)
           => store' = Snapshot
        /\ (scenario = "publish" /\ nsteps' >= 1 /\ last_delivered' /\ threads' = {})
           => store' = [solar |-> p_gen', ci |-> ci', battery_soc |-> soc'] ]_vars

----------------------------------------------------------------------------
\* Properties of the microgrid step and of the storage.

\* A microgrid step has been completed and none is in progress.
StepDone == micro.pc = "idle" /\ nsteps >= 1 /\ scenario \in {"ves", "controller"}

\* C12: a parameter change from the external side never takes effect in the
\* middle of a step: the storage update of every step runs with the min_soc
\* that held when the step began.
C12_StepRunsWithParametersOfItsBegin ==
    StepDone => micro.used_min_soc = micro.begin_min_soc

\* The power the battery really absorbed (positive) or delivered (negative) in
\* the step: the requested power minus the excess the storage reported.
battery_power_applied == micro.request - micro.excess

\* C16: energy conservation of VirtualEnergySystemModel.step: consumption - solar
\* = battery_power_applied + grid_power. The balance is also accepted with the
\* battery's power counted as delivered power (grid_power - battery_power_applied),
\* the reading under which drawing from the grid and discharging add up.
C16_EnergyConservation ==
    (StepDone /\ scenario = "ves") =>
        \/ micro.p_delta = battery_power_applied + micro.grid_power
        \/ micro.p_delta = micro.grid_power - battery_power_applied

\* C17: once a grid_charge g has been accepted by PUT /battery, every following
\* step in which the storage can take the remainder without clamping produces
\* grid_power = g.
C17_GridOverrideHonoured ==
    (StepDone /\ scenario = "ves" /\ micro.begin_grid \in ParamVals
       /\ update(micro.before, micro.used_min_soc,
                 micro.begin_grid - micro.p_delta, 1).excess = 0)
    => micro.grid_power = micro.begin_grid

----------------------------------------------------------------------------
\* Properties of the step loop of the SiL interface.

\* C13: step never blocks on network I/O: whenever the run, not yet finalized,
\* has a further step to execute, step can execute and return, whatever requests
\* of earlier steps are still unanswered.
C13_StepNeverWaits ==
    (scenario = "publish" /\ phase = "run" /\ teardown = "running" /\ nsteps < MaxSteps)
    => ENABLED step

\* The second step has been executed while the request of the first step's
\* publish is sent and not answered.
C13_Witness ==
    /\ scenario = "publish"
    /\ nsteps = 2
    /\ \E th \in threads : th.step = 1 /\ th.pc = "sent"

\* C14: a failed or timed-out outbound request ends in its own thread: the run
\* stays in its running phase, and battery, policy, node state, the model's
\* inputs and the snapshot are left as they were.
C14_FailureStaysInItsTask ==
    [][ failures' = failures + 1
        => /\ phase' = phase
           /\ UNCHANGED << min_soc, grid_power, node_mode, updated_nodes, soc,
                           charge_level, p_gen, ci, nsteps, store >> ]_vars

\* The publish of the first step failed; the second step was executed and its
\* publish has been answered.
C14_Witness ==
    /\ scenario = "publish"
    /\ failures = 1
    /\ nsteps = 2
    /\ last_delivered
    /\ threads = {}
    /\ phase = "run"

\* C15: teardown happens in this order: external writes stop being accepted,
\* the collector stops draining, every publish thread in flight is joined, and
\* only then the network service is terminated. So no write is accepted once the
\* collector has stopped, and the service is terminated only after the collector
\* has stopped and with no thread in flight.
C15_TeardownOrder ==
    [][ /\ teardown # "running" => accepted' = accepted
        /\ (teardown # "terminated" /\ teardown' = "terminated")
           => (teardown = "collector_stopped" /\ threads = {}) ]_vars

----------------------------------------------------------------------------
\* The storage contract, in the runs with a storage: the VirtualEnergySystemModel
\* and the microgrid of controller_example.py.

\* min_soc * capacity, for min_soc in percent.
abs_min_soc_of(msoc) == (msoc * Capacity) \div 100
Abs(x) == IF x < 0 THEN 0 - x ELSE x

\* C18: whatever updates were made and however min_soc was changed at runtime (by
\* a controller, the collector or a PUT), 0 <= charge_level <= capacity, and
\* directly after an update min_soc * capacity <= charge_level <= capacity.
C18_StorageBounds ==
    /\ 0 <= charge_level
    /\ charge_level <= Capacity
    /\ StepDone => abs_min_soc_of(micro.used_min_soc) <= charge_level

\* C19: for every update, also when min_soc was raised above the current soc at
\* runtime: the excess returned is zero or has the sign of the power requested,
\* it is no larger in magnitude than power * duration, and charge_level changed
\* by power * duration - excess. With capacity 100, charge_level 60 and min_soc
\* 0.5, update(-50, 1) leaves charge_level 50 and returns -40.
C19_ExcessIsTheUnservedPart ==
    /\ StepDone =>
          /\ \/ micro.excess = 0
             \/ micro.excess > 0 /\ micro.request > 0
             \/ micro.excess < 0 /\ micro.request < 0
          /\ Abs(micro.excess) <= Abs(micro.request)
          /\ charge_level - micro.before = micro.request - micro.excess
    /\ update(60, 50, 0 - 50, 1) = [charge_level |-> 50, excess |-> 0 - 40]

----------------------------------------------------------------------------
\* Determinism of the VirtualEnergySystemModel's step.

\* No client has written: the model's redis keys are as the constructor left them.
NoVesWrite == ves_redis = [min_soc |-> None, grid_charge |-> None, nodes |-> EmptyHash]

----------------------------------------------------------------------------
\* Power meters and traces.

\* C22: the power of a MockPowerMeter is never negative: a negative p at
\* construction and a negative value in set_power raise ValueError, a rejected
\* set_power leaves the stored power as it was, and measure returns the value of
\* the last accepted construction or set_power.
C22_MockPowerNeverNegative ==
    scenario = "mock" =>
        /\ mock.alive => (mock._p >= 0 /\ mock._p = last_set)
        /\ (outcome.op \in {"__init__", "set_power"} /\ outcome.arg < 0)
           => outcome.raised = "ValueError"
        /\ outcome.op = "measure"
           => (outcome.raised = "none" /\ outcome.value = last_set /\ outcome.value >= 0)

\* A set_power with a negative value was rejected on a meter holding 5.
C22_Witness ==
    /\ scenario = "mock"
    /\ outcome.op = "set_power"
    /\ outcome.arg < 0
    /\ outcome.raised = "ValueError"
    /\ mock._p = 5

\* The timestamps of a file's rows are pairwise distinct.
DistinctTimes(file) == \A i, j \in 1 .. Len(file) : i # j => file[i].time # file[j].time
\* The rows of data are those of file, in ascending order of time.
SortedRowsOf(data, file) ==
    /\ Len(data) = Len(file)
    /\ {data[i] : i \in 1 .. Len(data)} = {file[i] : i \in 1 .. Len(file)}
    /\ \A i, j \in 1 .. Len(data) : i < j => data[i].time < data[j].time

\* C23: _load_data raises ValueError exactly for the files with a duplicated
\* timestamp: a file of one or more rows with pairwise distinct timestamps, in
\* any row order, is loaded with its rows sorted ascending by time.
C23_LoadRejectsExactlyDuplicates ==
    (scenario = "file" /\ outcome.op = "__init__" /\ Len(file_arg) >= 1) =>
        /\ outcome.raised = "ValueError" <=> ~ DistinctTimes(file_arg)
        /\ outcome.raised = "none" => (fpm.alive /\ SortedRowsOf(fpm.data, file_arg))

\* C24: an unsupported unit is refused at construction: a FilePowerMeter, a
\* CarbonApi or a CarbonAgent given a unit outside its supported set raises in
\* the constructor, so no such object ever exists and none is ever queried.
C24_UnsupportedUnitRaisesAtConstruction ==
    /\ (scenario = "file" /\ outcome.op = "__init__" /\ unit_arg \notin {"W", "kW", "MW"})
       => outcome.raised # "none"
    /\ (scenario = "file" /\ fpm.alive) => fpm.unit \in {"W", "kW", "MW"}
    /\ (scenario \in {"carbon", "agent"} /\ outcome.op \in {"CarbonApi", "CarbonAgent"}
        /\ unit_arg \notin {"g_per_kWh", "lb_per_MWh"})
       => outcome.raised # "none"

\* The rows of the meter's data at or before a time.
RowsUpTo(now) == {i \in 1 .. Len(fpm.data) : fpm.data[i].time <= now}
WattsPer(unit) == IF unit = "W" THEN 1 ELSE IF unit = "kW" THEN 1000 ELSE 1000000

\* FilePowerMeter.measure, for a meter with a supported unit: the power of the
\* row with the greatest timestamp at or before now, in watts; ValueError when
\* there is no such row.
MeasureIsAsOf ==
    (scenario = "file" /\ outcome.op = "measure" /\ fpm.unit \in {"W", "kW", "MW"})
    => IF RowsUpTo(outcome.arg) = {}
       THEN outcome.raised = "ValueError"
       ELSE /\ outcome.raised = "none"
            /\ \E i \in RowsUpTo(outcome.arg) :
                  /\ \A j \in RowsUpTo(outcome.arg) : fpm.data[j].time <= fpm.data[i].time
                  /\ outcome.value = fpm.data[i].power * WattsPer(fpm.unit)

\* C25: a lookup returns the value of the row with the greatest timestamp at or
\* before the queried time (the meter's in watts), and raises ValueError when
\* there is no such row: FilePowerMeter.measure, and TraceSimulator.actual_at
\* for a zone of the table.
C25_AsOfLookup ==
    /\ MeasureIsAsOf
    /\ (scenario = "carbon" /\ outcome.op = "actual_at"
        /\ zone_arg \in trace.actual.zones)
       => IF {t \in trace.actual.index : t <= outcome.arg} = {}
          THEN outcome.raised = "ValueError"
          ELSE outcome.raised = "none"

LookupOps == {"measure", "actual_at", "power_at", "carbon_intensity_at"}

----------------------------------------------------------------------------
\* The startup of the SiL model.

\* The order of the startup: the wait for the server has ended only with the
\* startup complete, a request is sent only after that, and the collector thread
\* is started only after the initial publish.
StartupOrder ==
    scenario = "startup" =>
        /\ boot.requests > 0 => boot.startup_complete
        /\ boot.collector_started => boot.requests > 0

\* In the construction as it is written the startup never completes: whenever
\* __init__ has ended, it has raised, and no server process was started.
ConstructionRaises ==
    (scenario = "startup" /\ boot.pc # "new")
    => (boot.raised = "TypeError" /\ ~ boot.server_started /\ ~ boot.startup_complete)

----------------------------------------------------------------------------
\* The NodeApiMeter's deletion.

\* C28: __del__ makes sure the update thread has terminated: a call of __del__
\* returns in every execution, and once it has returned the thread no longer runs.
C28_DelReturnsWithThreadEnded ==
    /\ [](node_meter.del = "returned" => ~ is_alive(node_meter))
    /\ (node_meter.del = "joining") ~> (node_meter.del = "returned")

\* Once __del__ has returned, the thread no longer runs.
ThreadEndedAfterDel == node_meter.del = "returned" => ~ is_alive(node_meter)

----------------------------------------------------------------------------
\* The drain of the nodes_power_mode events.

\* The collector thread's drain finds pending nodes_power_mode events.
NodesDrainApplied ==
    DrainApplied /\ DOMAIN collector.collection.nodes_power_mode # {}

\* The SilController's drain finds pending nodes_power_mode events.
ExampleNodesDrain ==
    /\ scenario = "example"
    /\ events.nodes_power_mode # <<>>
    /\ events' = NoEvents

\* Node n is in the updated_nodes list.
Recorded(n, updated) == \E i \in 1..Len(updated) : updated[i] = n

\* C29: a drain that finds pending nodes_power_mode events completes without
\* raising and applies the latest entry: afterwards every node whose id appears
\* in that entry has the entry's power mode and is recorded in updated_nodes, and
\* every node whose id does not appear in it is unchanged.
C29_DrainAppliesLatestNodesEntry ==
    [][ /\ NodesDrainApplied =>
             LET log == collector.collection.nodes_power_mode
             IN  /\ collector'.error = "none"
                 /\ \A f \in LatestFields(log) : \A n \in NodeIds :
                        IF IsIntLiteral(log[f].item) /\ IntOf(log[f].item) = n
                        THEN /\ node_mode'[n] = log[f].mode
                             /\ Recorded(n, updated_nodes')
                        ELSE node_mode'[n] = node_mode[n]
        /\ ExampleNodesDrain =>
             LET evs == events.nodes_power_mode
             IN  \A i \in 1..Len(evs) :
                     (\A j \in 1..Len(evs) : evs[j].t < evs[i].t \/ (evs[j].t = evs[i].t /\ j <= i))
                     => \A n \in NodeNames :
                            node_mode'[n] = IF n = evs[i].value.name
                                            THEN evs[i].value.mode
                                            ELSE node_mode[n]
      ]_vars

\* The part of C29 about the SilController's drain in sil_example.
ExampleDrainAppliesLatestNodesEntry ==
    [][ ExampleNodesDrain =>
             LET evs == events.nodes_power_mode
             IN  \A i \in 1..Len(evs) :
                     (\A j \in 1..Len(evs) : evs[j].t < evs[i].t \/ (evs[j].t = evs[i].t /\ j <= i))
                     => \A n \in NodeNames :
                            node_mode'[n] = IF n = evs[i].value.name
                                            THEN evs[i].value.mode
                                            ELSE node_mode[n]
      ]_vars

\* C30: power-mode writes addressed to different nodes do not overwrite each
\* other: when an accepted write for node A and a later accepted write for node B
\* are both pending at the same drain, after the drain node A has the mode of its
\* write and node B has the mode of its write.
C30_WritesToDifferentNodesBothApplied ==
    [][ /\ NodesDrainApplied =>
             LET log == collector.collection.nodes_power_mode
             IN  \A a \in DOMAIN log, b \in DOMAIN log :
                     ( /\ log[a].id < log[b].id
                       /\ IsIntLiteral(log[a].item) /\ IsIntLiteral(log[b].item)
                       /\ log[a].item # log[b].item )
                     => /\ node_mode'[IntOf(log[a].item)] = log[a].mode
                        /\ node_mode'[IntOf(log[b].item)] = log[b].mode
        /\ ExampleNodesDrain =>
             LET evs == events.nodes_power_mode
             IN  \A i \in 1..Len(evs), j \in 1..Len(evs) :
                     (i < j /\ evs[i].value.name # evs[j].value.name)
                     => /\ node_mode'[evs[i].value.name] = evs[i].value.mode
                        /\ node_mode'[evs[j].value.name] = evs[j].value.mode
      ]_vars

----------------------------------------------------------------------------
\* The notification of the nodes a drain has changed.

\* No node is ever pending for a notification: the only statement that appends
\* to updated_nodes is in the nodes branch of _api_collector, behind the test
\* that raises.
NoNodePending == updated_nodes = <<>>

----------------------------------------------------------------------------
\* The publish as a view of one step.

\* A publish thread reads a field for its request body in this step.
Reads(th) == th.pc \in {"solar", "ci", "battery_soc"} /\ th \notin threads'

\* C32: every publish is a consistent view of one step: the solar, ci and
\* battery_soc values the publish thread of step k sends are those at the end of
\* step k. The thread reads each of them from the model when it runs, so this
\* says that it reads none after a later step has assigned the attributes anew.
C32_PublishIsViewOfItsStep ==
    [][ \A th \in threads : Reads(th) => th.step = nsteps ]_vars

----------------------------------------------------------------------------
\* The range of battery.min_soc.

\* C33: battery.min_soc stays inside [0, 1] in every reachable state: no accepted
\* PUT /battery, drain or controller step sets it below 0, above 1 or to None.
C33_MinSocInUnitInterval ==
    /\ min_soc # None
    /\ 0 <= min_soc
    /\ min_soc <= 100

----------------------------------------------------------------------------
\* After SilInterfaceSim.finalize.

\* finalize has returned.
Finalized == teardown = "terminated"

\* C34: after SilInterfaceSim.finalize has returned the collector performs no
\* further drain (battery.min_soc, policy.grid_power and the nodes' modes are not
\* changed by it again) and the API server process no longer runs (it handles no
\* request: its logs, its store and the responses stay as they are); and the
\* server is terminated only after the collector thread was stopped and joined.
C34_NothingRunsAfterFinalize ==
    [][ /\ Finalized =>
             /\ UNCHANGED << min_soc, grid_power, node_mode, updated_nodes, collector >>
             /\ UNCHANGED << server_vars, resp, history_put, history_pub >>
             /\ Finalized'
        /\ (~ Finalized /\ Finalized') =>
             /\ teardown = "collector_stopped"
             /\ collector.pc # "apply"
      ]_vars

\* finalize has returned while writes that were accepted after the collector's
\* last drain are still in the log: they stay there.
C34_Witness ==
    /\ scenario = "collect"
    /\ Finalized
    /\ DOMAIN battery_min_soc_log # {}
    /\ \E i \in 1..Len(returned) : returned[i].battery_min_soc = 1

----------------------------------------------------------------------------
\* The power, in milliwatts, the example's table gives a meter in a mode.
ModePower(name, mode) ==
    CASE name = "mpm0" /\ mode = "high performance" -> 2964
      [] name = "mpm0" /\ mode = "normal" -> 2194
      [] name = "mpm0" /\ mode = "power-saving" -> 1781
      [] name = "mpm1" /\ mode = "high performance" -> 8800
      [] name = "mpm1" /\ mode = "normal" -> 7600
      [] name = "mpm1" /\ mode = "power-saving" -> 6800

\* The second half of CarbonAwareController.step is taken.
ControllerApplies == micro.pc = "decided" /\ micro'.pc # "decided"

\* C35: CarbonAwareController.step never fails for the meters mpm0 and mpm1, and
\* the actuators follow the decision: every chosen mode is a mode of the nodes
\* API, set_power gets a non-negative value, and after the step policy.grid_power
\* and battery.min_soc are the values of cacu_scenario and every meter measures
\* the power of its chosen mode.
C35_StepAppliesDecisionToActuators ==
    [][ ControllerApplies =>
          LET decision == cacu_scenario(micro.time, micro.battery_soc, micro.ci, PowerMeters)
          IN  /\ outcome'.op = "step" /\ outcome'.raised = "none"
              /\ micro'.pc = "idle"
              /\ grid_power' = decision.grid_power
              /\ min_soc' = decision.battery_min_soc
              /\ \A name \in PowerMeters :
                    /\ decision.nodes_power_mode[name] \in power_modes
                    /\ ModePower(name, decision.nodes_power_mode[name]) >= 0
                    /\ power_meters'[name]._p
                          = ModePower(name, decision.nodes_power_mode[name]) ]_vars

\* A step has put both meters in power-saving and the policy and the battery at
\* the decision for a dirty grid and a low battery.
C35_Witness ==
    /\ scenario = "controller"
    /\ outcome.op = "step" /\ outcome.raised = "none"
    /\ power_meters["mpm0"]._p = 1781 /\ power_meters["mpm1"]._p = 6800
    /\ grid_power = 0 /\ min_soc = 30

----------------------------------------------------------------------------
\* C36: the outputs of cacu_scenario fit together for all inputs: grid charging
\* (grid_power 20) comes with battery_min_soc 0.3 and every node in high
\* performance; a node in power-saving comes with grid_power 0 and battery_min_soc
\* 0.3; and the result for a time is the result for the time one day later.
C36_CacuOutputsJointlyConsistent ==
    (scenario = "controller" /\ micro.pc = "decided") =>
        LET new_state == micro.new_state
        IN  /\ new_state.grid_power = 20
               => /\ new_state.battery_min_soc = 30
                  /\ \A node \in PowerMeters :
                        new_state.nodes_power_mode[node] = "high performance"
            /\ (\E node \in PowerMeters : new_state.nodes_power_mode[node] = "power-saving")
               => /\ new_state.grid_power = 0
                  /\ new_state.battery_min_soc = 30
            /\ new_state = cacu_scenario(micro.time + 86400, micro.battery_soc, micro.ci,
                                         PowerMeters)

\* The controller has decided for grid charging at 35:00, the same time of day
\* as 11:00.
C36_Witness ==
    /\ scenario = "controller" /\ micro.pc = "decided"
    /\ micro.time = 126000
    /\ micro.new_state.grid_power = 20

\* The controller has decided for power-saving.
C36_PowerSavingDecided ==
    /\ scenario = "controller" /\ micro.pc = "decided"
    /\ micro.new_state.nodes_power_mode["mpm0"] = "power-saving"

\* The controller has decided at a time of the day past 11:00 with a battery at
\* 60 percent or more, where the time of day sets battery_min_soc.
C36_WindowDecided ==
    /\ scenario = "controller" /\ micro.pc = "decided"
    /\ micro.time \in {39600, 126000}
    /\ micro.new_state.battery_min_soc = 60

----------------------------------------------------------------------------
\* The battery's answer to the last step has the sign of the request and at most
\* its magnitude.
ExcessWithinRequest ==
    /\ micro.request >= 0 => (0 <= micro.excess /\ micro.excess <= micro.request)
    /\ micro.request <= 0 => (micro.request <= micro.excess /\ micro.excess <= 0)

\* C37: after every VirtualEnergySystemModel.step grid_power neither opposes the
\* deficit nor exceeds it: it is >= 0 when consumption > solar, <= 0 when
\* consumption <= solar, and at most |consumption - solar| in magnitude, for
\* every answer of the battery that has the request's sign and at most its
\* magnitude.
C37_GridPowerWithinDeficit ==
    (StepDone /\ scenario = "ves" /\ ExcessWithinRequest) =>
        /\ micro.p_delta > 0 => micro.grid_power >= 0
        /\ micro.p_delta <= 0 => micro.grid_power <= 0
        /\ Abs(micro.grid_power) <= Abs(micro.p_delta)

\* A step with excess solar power and a battery that could not take all of it
\* has fed the rest to the grid.
C37_Witness ==
    /\ StepDone /\ scenario = "ves" /\ ExcessWithinRequest
    /\ micro.p_delta < 0 /\ micro.excess > 0
    /\ micro.grid_power = 0 - micro.excess

\* A step with a deficit has set a positive grid_power.
C37_DeficitDrawsFromGrid ==
    /\ StepDone /\ scenario = "ves" /\ ExcessWithinRequest
    /\ micro.p_delta > 0 /\ micro.grid_power > 0

\* A step in which the battery's answer exceeded the request (min_soc above 1).
C37_ExcessBeyondRequest ==
    /\ StepDone /\ scenario = "ves" /\ ~ ExcessWithinRequest

----------------------------------------------------------------------------
\* A poll of the NodeApiMeter has failed: the request raised in the update thread.
PollFailed == node_meter.update_thread = "dead"

\* C38: a NodeApiMeter keeps following its node: __call__ returns the power the
\* last successful poll stored (0 before the first) and leaves the meter as it
\* is, and after a poll that fails the polling continues: the update thread
\* requests the node's power again.
C38_MeterKeepsFollowingNode ==
    /\ [][ (outcome'.op = "__call__" /\ outcome' # outcome)
              => /\ outcome'.value = node_meter.power
                 /\ outcome'.raised = "none"
                 /\ UNCHANGED node_meter ]_vars
    /\ [](node_meter.update_thread = "request" /\ node_meter.power # 0
              => node_meter.power \in NodePowers)
    /\ PollFailed ~> (node_meter.update_thread = "request")

\* __call__ answers with the stored power at every call, also after the polling
\* has ended.
CallReturnsStoredPower ==
    [][ (outcome'.op = "__call__" /\ outcome' # outcome)
           => /\ outcome'.value = node_meter.power
              /\ UNCHANGED node_meter ]_vars

\* Once a poll has failed the update thread stays dead.
FailedPollEndsPolling == [][ PollFailed => PollFailed' ]_vars

\* __call__ has answered with a polled power after the polling ended.
C38_StaleValueServed ==
    /\ PollFailed
    /\ outcome.op = "__call__" /\ outcome.value \in NodePowers

============================================================================
